---- MODULE Spec2Model ----
(***************************************************************************)
(* The post-processing scripts of the Shopify_Insights repository: each   *)
(* reads a line-delimited JSON bulk export, accumulates into dictionaries *)
(* and emits report rows.  One behaviour is one run of one script; the    *)
(* variable `script` says which.  Variables keep the names the scripts    *)
(* use, and scripts that use the same name share the variable.            *)
(*                                                                         *)
(* Numbers.  Money amounts are floats in the scripts.  The model counts   *)
(* money in eighths of a currency unit (0.125), which binary floating     *)
(* point represents exactly, so that sums are exact and round(x, 2) has   *)
(* real ties to break.  Dates are day ordinals.                           *)
(***************************************************************************)
EXTENDS Integers, Sequences, FiniteSets, TLC

VARIABLES
    script,              \* which script this run executes
    pc,                  \* position in the script
    jsonl_data,          \* the input lines read so far, in file order
    lines_processed,     \* RFM: counter of lines seen
    invalid_lines,       \* RFM: counter of skipped lines
    customers,           \* RFM, cohorts: customer id -> customer record
    orders_by_customer,  \* RFM: parent id -> list of order records
    customer_data,       \* RFM: customer id -> metrics (Step 2 / Step 3)
    customer_list,       \* RFM: the rows of rfm_customer_list.csv, in order
    daily_data,          \* sales over time, returning rate: day -> accumulator
    current_period_data, \* day of month -> row values, latest month
    previous_period_data,\* day of month -> row values, the month before
    output_data,         \* the rows of the report, in order
    sales_channel_data,  \* sales by channel: channel -> accumulator
    customer_orders,     \* cohorts: customer id -> list of orders
    customer_cohorts,    \* cohorts: cohort month -> list of customer ids
    cohort_metrics,      \* cohorts: the rows of the cohort report
    current_data_by_day, \* items returned: day -> accumulator, current period
    previous_data_by_day,\* items returned: day -> accumulator, previous period
    refund_to_day,       \* items returned: refund id -> <<day, period>>
    orders_with_refunds, \* items returned: set of <<order id, period>>
    aggregated_data,     \* items returned: the rows of the report
    processed_orders,    \* returning rate: order ids already seen
    variant_data,        \* inventory: variant id -> title, sku, ending quantity
    quantity_sold,       \* inventory: variant id -> units sold
    current_data_by_day_and_type,  \* new customer sales: <<day, type>> -> accumulator
    previous_data_by_day_and_type, \* the same, previous period
    location_counts,     \* customers by location: <<country, region, city>> -> count
    location_list,       \* customers by location: the rows of the report
    dataType,            \* insights: "products", "inventory" or "orders"
    OPENAI_API_KEY,      \* insights: is the environment variable set
    dataset,             \* insights: the data argument of generateInsights
    response,            \* insights: what the completion request came to
    insights,            \* insights: the array generateInsights resolves to
    daily_net_sales,     \* net sales over time: day -> net sales
    variant_metrics,     \* sales by product variant: variant key -> metrics
    current_order_id,    \* sales by product variant: id of the last order line
    current_new_customers_by_day,\* new customers over time: day -> customers, orders, total sales
    previous_new_customers_by_day,\* the same, previous period
    data_list,           \* new customers: the rows of the report
    current_new,         \* new vs returning: new customers, current period
    current_returning,   \* new vs returning: returning customers, current period
    previous_new,        \* new vs returning: new customers, previous period
    previous_returning,  \* new vs returning: returning customers, previous period
    allProducts,         \* loader: the products fetched so far
    hasNextPageProducts, \* loader: the condition of the products loop
    endCursorProducts,   \* loader: the cursor of the next products request
    served,              \* loader: the requests the server got, each with its outcome
    refunds_left         \* items returned: the refunds still to be queried, in order

common == <<script, pc, jsonl_data>>
rfmOnly == <<lines_processed, invalid_lines, orders_by_customer, customer_data,
             customer_list>>
periodVars == <<daily_data, current_period_data, previous_period_data>>
channelVars == <<sales_channel_data>>
cohortVars == <<customer_orders, customer_cohorts, cohort_metrics>>
returnsVars == <<current_data_by_day, previous_data_by_day, refund_to_day,
                 orders_with_refunds, aggregated_data>>
rateVars == <<processed_orders>>
inventoryVars == <<variant_data, quantity_sold>>
typeVars == <<current_data_by_day_and_type, previous_data_by_day_and_type>>
locationVars == <<location_counts, location_list>>
insightVars == <<dataType, OPENAI_API_KEY, dataset, response, insights>>
netVars == <<daily_net_sales>>
variantVars == <<variant_metrics, current_order_id>>
newCustVars == <<current_new_customers_by_day, previous_new_customers_by_day, data_list, current_new, current_returning, previous_new, previous_returning>>
loaderVars == <<allProducts, hasNextPageProducts, endCursorProducts, served>>
fetchVars == <<refunds_left>>
vars == <<common, customers, rfmOnly, periodVars, output_data, channelVars,
          cohortVars, returnsVars, rateVars, inventoryVars,
          typeVars,
          locationVars,
          insightVars,
          netVars,
          variantVars,
          newCustVars,
          loaderVars,
          fetchVars>>

\* what each script leaves alone
notRfm == <<periodVars, output_data, channelVars, cohortVars, returnsVars,
            rateVars, inventoryVars,
            typeVars,
            locationVars,
            insightVars,
            netVars,
            variantVars,
            newCustVars,
            loaderVars,
            fetchVars>>
notTotalSales == <<customers, rfmOnly, channelVars, cohortVars, returnsVars,
                   rateVars, inventoryVars,
                   typeVars,
                   locationVars,
                   insightVars,
                   netVars,
                   variantVars,
                   newCustVars,
                   loaderVars,
                   fetchVars>>
notChannel == <<customers, rfmOnly, periodVars, cohortVars, returnsVars,
                rateVars, inventoryVars,
                typeVars,
                locationVars,
                insightVars,
                netVars,
                variantVars,
                newCustVars,
                loaderVars,
                fetchVars>>
notCohort == <<rfmOnly, periodVars, output_data, channelVars, returnsVars,
               rateVars, inventoryVars,
               typeVars,
               locationVars,
               insightVars,
               netVars,
               variantVars,
               newCustVars,
               loaderVars,
               fetchVars>>
notReturns == <<customers, rfmOnly, periodVars, output_data, channelVars,
                cohortVars, rateVars, inventoryVars,
                typeVars,
                locationVars,
                insightVars,
                netVars,
                variantVars,
                newCustVars,
                loaderVars>>
notRate == <<customers, rfmOnly, channelVars, cohortVars, returnsVars,
             inventoryVars,
             typeVars,
             locationVars,
             insightVars,
             netVars,
             variantVars,
             newCustVars,
             loaderVars,
             fetchVars>>
notInventory == <<customers, rfmOnly, periodVars, channelVars, cohortVars,
                  returnsVars, rateVars,
                  typeVars,
                  locationVars,
                  insightVars,
                  netVars,
                  variantVars,
                  newCustVars,
                  loaderVars,
                  fetchVars>>
notMarketing == <<customers, rfmOnly, daily_data, channelVars, cohortVars,
                  returnsVars, rateVars, inventoryVars,
                  typeVars,
                  locationVars,
                  insightVars,
                  netVars,
                  variantVars,
                  newCustVars,
                  loaderVars,
                  fetchVars>>

-----------------------------------------------------------------------------
(* Bounds of the model *)

\* longest input file, in lines
MaxLines == 3
\* customer ids that may occur in the input: 1..NumCustomers
NumCustomers == 2

(* Program constants *)

\* date.today(), as a day ordinal
CURRENT_DATE == 400

-----------------------------------------------------------------------------
(* Generic helpers *)

EmptyMap == [x \in {} |-> 0]

\* Python's None in a field that otherwise holds a date or an id
None == 0 - 1

\* the collections of a script as the interpreter starts it
ZeroRfm ==
    /\ lines_processed = 0
    /\ invalid_lines = 0
    /\ orders_by_customer = EmptyMap
    /\ customer_data = EmptyMap
    /\ customer_list = <<>>
ZeroPeriod ==
    /\ daily_data = EmptyMap
    /\ current_period_data = EmptyMap
    /\ previous_period_data = EmptyMap
ZeroChannel == sales_channel_data = EmptyMap
ZeroCohort ==
    /\ customer_orders = EmptyMap
    /\ customer_cohorts = EmptyMap
    /\ cohort_metrics = <<>>
ZeroReturns ==
    /\ current_data_by_day = EmptyMap
    /\ previous_data_by_day = EmptyMap
    /\ refund_to_day = EmptyMap
    /\ orders_with_refunds = {}
    /\ aggregated_data = <<>>
ZeroRate == processed_orders = {}
ZeroInventory ==
    /\ variant_data = EmptyMap
    /\ quantity_sold = EmptyMap
ZeroType ==
    /\ current_data_by_day_and_type = EmptyMap
    /\ previous_data_by_day_and_type = EmptyMap
ZeroLocation ==
    /\ location_counts = EmptyMap
    /\ location_list = <<>>
ZeroInsights ==
    /\ dataType = ""
    /\ OPENAI_API_KEY = FALSE
    /\ dataset = ""
    /\ response = [outcome |-> "", content |-> <<>>]
    /\ insights = <<>>
ZeroNet ==
    daily_net_sales = EmptyMap
ZeroVariant ==
    /\ variant_metrics = EmptyMap
    /\ current_order_id = None
ZeroNewCust ==
    /\ current_new_customers_by_day = EmptyMap
    /\ previous_new_customers_by_day = EmptyMap
    /\ data_list = <<>>
    /\ current_new = {}
    /\ current_returning = {}
    /\ previous_new = {}
    /\ previous_returning = {}

\* the cursor the loader starts from
StartCursor == "eyJsYXN0X2lkIjoyMDk5NTY0MiwibGFzdF92YWx1ZSI6IjIwOTk1NjQyIn0="

ZeroLoader ==
    /\ allProducts = <<>>
    /\ hasNextPageProducts = TRUE
    /\ endCursorProducts = StartCursor
    /\ served = <<>>

ZeroFetch ==
    refunds_left = <<>>

ZeroAll ==
    /\ jsonl_data = <<>>
    /\ customers = EmptyMap
    /\ output_data = <<>>
    /\ ZeroRfm /\ ZeroPeriod /\ ZeroChannel /\ ZeroCohort /\ ZeroReturns
    /\ ZeroRate /\ ZeroInventory /\ ZeroType /\ ZeroLocation /\ ZeroInsights /\ ZeroNet /\ ZeroVariant /\ ZeroNewCust /\ ZeroLoader /\ ZeroFetch

\* dictionary assignment d[k] = v
Put(d, k, v) == [x \in (DOMAIN d) \cup {k} |-> IF x = k THEN v ELSE d[x]]

Max(a, b) == IF a >= b THEN a ELSE b

\* a key that is absent from the record (reading it raises KeyError)
MISSING == 0 - 1000000
\* a value that is present but does not parse (strptime / float raise ValueError)
BAD == 0 - 999999

\* n currency units, in eighths
Units(n) == 8 * n

-----------------------------------------------------------------------------
(* RFM customer list: input lines *)

CustIds == 1..NumCustomers

\* __parentId of an order line: a customer gid, or 0 for a parent reference
\* that is absent or is not "gid://shopify/Customer/<digits>"
ParentRefs == CustIds \cup {0}

\* The order bodies the input may carry.  createdAt is a day ordinal, or
\* BAD (does not match %Y-%m-%dT%H:%M:%SZ), or MISSING (no such key).
\* A money field is an amount in eighths, or MISSING (no such key).
OrderBodies ==
    { [createdAt |-> CURRENT_DATE - 10, subtotal |-> Units(40), discounts |-> 0,
       tax |-> 0, shipping |-> 0],
      [createdAt |-> CURRENT_DATE - 100, subtotal |-> Units(600) + 1, discounts |-> 1,
       tax |-> Units(2), shipping |-> Units(5)],
      [createdAt |-> BAD, subtotal |-> Units(40), discounts |-> 0,
       tax |-> 0, shipping |-> 0],
      [createdAt |-> CURRENT_DATE - 10, subtotal |-> MISSING, discounts |-> 0,
       tax |-> 0, shipping |-> 0] }

\* One line of the export file, by what json.loads and the classifier see:
\*   blank      only whitespace
\*   malformed  json.loads raises JSONDecodeError
\*   scalar     valid JSON that is no object and no container (42, null)
\*   other      a JSON object whose id has neither prefix
\*   child      a JSON object whose id is absent or has neither prefix and
\*              whose __parentId is a customer gid
\*   customer   id starts with gid://shopify/Customer
\*   order      id starts with gid://shopify/Order
RfmLines ==
    { [kind |-> k] : k \in {"blank", "malformed", "scalar", "other"} }
    \cup { [kind |-> "customer", id |-> c] : c \in CustIds }
    \cup { [kind |-> "child", parent |-> c] : c \in CustIds }
    \cup { [kind |-> "order", parent |-> p, body |-> b] :
             p \in ParentRefs, b \in OrderBodies }

-----------------------------------------------------------------------------
(* RFM customer list: Step 1, first pass *)

\* the order record kept for an order line; `line` is the line's number in
\* the file and stands for the order's own id
OrderRecord(line, n) == [line |-> n, parent |-> line.parent, body |-> line.body]

\* customers[customer_id] = data, with data["orders"] = {"edges": []}
AddCustomer(cs, id) == Put(cs, id, [id |-> id, orders |-> <<>>])

\* a slip: the list is replaced where it should grow
AddOrderOverwriting(obc, line, n) == Put(obc, line.parent, <<OrderRecord(line, n)>>)

\* orders_by_customer[parent_id].append(data)
AddOrder(obc, line, n) ==
    Put(obc, line.parent,
        Append(IF line.parent \in DOMAIN obc THEN obc[line.parent] ELSE <<>>,
               OrderRecord(line, n)))

\* a slip: an order without valid parent is skipped without being counted
RfmLineInvalidUncounted(line) == line.kind \in {"malformed", "other", "child"}

\* does the first-pass body count the line as invalid?
RfmLineInvalid(line) ==
    \/ line.kind \in {"malformed", "other", "child"}
    \/ line.kind = "order" /\ line.parent = 0

\* One iteration of "for line in jsonl_data".  A scalar line makes
\* `"id" in data` raise TypeError, which the except clause does not catch.
RfmFirstPassLine(line) ==
    /\ script = "rfm"
    /\ pc = "first_pass"
    /\ Len(jsonl_data) < MaxLines
    /\ jsonl_data' = Append(jsonl_data, line)
    /\ lines_processed' = lines_processed + 1
    /\ invalid_lines' = IF RfmLineInvalid(line) THEN invalid_lines + 1 ELSE invalid_lines
    /\ customers' = IF line.kind = "customer" THEN AddCustomer(customers, line.id)
                    ELSE customers
    /\ orders_by_customer' =
           IF line.kind = "order" /\ line.parent # 0
           THEN AddOrder(orders_by_customer, line, lines_processed + 1)
           ELSE orders_by_customer
    /\ pc' = IF line.kind = "scalar" THEN "aborted" ELSE "first_pass"
    /\ UNCHANGED <<script, customer_data, customer_list, notRfm>>

\* a slip: the second pass without its membership test
AttachSynthesizing(cs, obc) ==
    [c \in (DOMAIN cs) \cup (DOMAIN obc) |->
        IF c \in DOMAIN obc THEN [id |-> c, orders |-> obc[c]] ELSE cs[c]]

\* "if customer_id in customers" of the second pass
Attach(cs, obc) ==
    [c \in DOMAIN cs |->
        IF c \in DOMAIN obc THEN [cs[c] EXCEPT !.orders = obc[c]] ELSE cs[c]]

\* The file is exhausted: the second pass rebuilds the nested structure.
RfmSecondPass ==
    /\ script = "rfm"
    /\ pc = "first_pass"
    /\ customers' = Attach(customers, orders_by_customer)
    /\ pc' = "metrics"
    /\ UNCHANGED <<script, jsonl_data, lines_processed, invalid_lines,
                   orders_by_customer, customer_data, customer_list, notRfm>>

-----------------------------------------------------------------------------
(* RFM customer list: Step 2, metrics per customer *)

\* Reading the order in the per-order loop raises (KeyError for an absent
\* key, ValueError for a createdAt that strptime rejects); the loop is not
\* inside a try, so the script ends with a traceback.
OrderRaises(o) ==
    \/ o.body.createdAt \in {MISSING, BAD}
    \/ \E f \in {"subtotal", "discounts", "tax", "shipping"} : o.body[f] \in {MISSING, BAD}

\* gross_sales - discounts + taxes + shipping of one order
OrderSpent(o) == o.body.subtotal - o.body.discounts + o.body.tax + o.body.shipping

RECURSIVE TotalSpent(_, _)
\* total_spent accumulated over orders[i..]
TotalSpent(orders, i) ==
    IF i > Len(orders) THEN 0 ELSE OrderSpent(orders[i]) + TotalSpent(orders, i + 1)

RECURSIVE LastOrderDate(_, _)
\* the greatest createdAt over orders[i..] (orders is not empty)
LastOrderDate(orders, i) ==
    IF i = Len(orders) THEN orders[i].body.createdAt
    ELSE Max(orders[i].body.createdAt, LastOrderDate(orders, i + 1))

\* the customer_data entry of one customer with at least one order
Metrics(c) ==
    [days_since_last_order |-> CURRENT_DATE - LastOrderDate(c.orders, 1),
     total_orders |-> Len(c.orders),
     total_spent |-> TotalSpent(c.orders, 1),
     is_new_customer |-> Len(c.orders) = 1]

\* "if total_orders == 0: continue": which customers get an entry
HasRow(c) == Len(c.orders) > 0

\* the whole "for customer_id, data in customers.items()" loop
CalcMetrics(cs) ==
    [id \in {x \in DOMAIN cs : HasRow(cs[x])} |-> Metrics(cs[id])]

AnyOrderRaises(cs) ==
    \E id \in DOMAIN cs : \E i \in 1..Len(cs[id].orders) : OrderRaises(cs[id].orders[i])

\* Step 2, then the "if not customer_data: exit()" test that opens Step 3.
\* A raise ends the process: nothing of customer_data is ever written.
RfmCalcMetrics ==
    /\ script = "rfm"
    /\ pc = "metrics"
    /\ IF AnyOrderRaises(customers)
       THEN /\ pc' = "aborted"
            /\ UNCHANGED customer_data
       ELSE /\ customer_data' = CalcMetrics(customers)
            /\ pc' = IF DOMAIN CalcMetrics(customers) = {} THEN "exit" ELSE "scores"
    /\ UNCHANGED <<script, jsonl_data, lines_processed, invalid_lines, customers,
                   orders_by_customer, customer_list, notRfm>>

-----------------------------------------------------------------------------
(* RFM customer list: Step 3, scores and groups *)

recency_thresholds == <<30, 60, 90, 180>>
frequency_thresholds == <<1, 3, 5, 10>>
monetary_thresholds == <<100, 500, 1000, 5000>>

score_metric(value, thresholds) ==
    IF value <= thresholds[1] THEN 5
    ELSE IF value <= thresholds[2] THEN 4
    ELSE IF value <= thresholds[3] THEN 3
    ELSE IF value <= thresholds[4] THEN 2
    ELSE 1

r_score(m) == score_metric(m.days_since_last_order, recency_thresholds)
f_score(m) == score_metric(m.total_orders, frequency_thresholds)
\* total_spent is in eighths, the thresholds are in whole units
m_score(m) == score_metric(m.total_spent, [i \in 1..4 |-> Units(monetary_thresholds[i])])

\* avg_score = (r_score + f_score + m_score) / 3; avg_score >= k is
\* 3 * avg_score >= 3 * k, and the sum is an integer
ScoreSum(m) == r_score(m) + f_score(m) + m_score(m)

\* a slip: the precedence of the New override inverted
rfm_group_bands_first(m) ==
    IF ScoreSum(m) >= 3 * 4 THEN "High-Value"
    ELSE IF m.is_new_customer THEN "New"
    ELSE IF ScoreSum(m) >= 3 * 3 THEN "Loyal"
    ELSE IF ScoreSum(m) >= 3 * 2 THEN "At-Risk"
    ELSE "Lost"

rfm_group(m) ==
    IF m.is_new_customer THEN "New"
    ELSE IF ScoreSum(m) >= 3 * 4 THEN "High-Value"
    ELSE IF ScoreSum(m) >= 3 * 3 THEN "Loyal"
    ELSE IF ScoreSum(m) >= 3 * 2 THEN "At-Risk"
    ELSE "Lost"

\* customer_data[customer_id]["rfm_group"] = rfm_group, for every customer;
\* the three scores are the loop's locals, kept for inspection
Scored(m) ==
    [days_since_last_order |-> m.days_since_last_order,
     total_orders |-> m.total_orders,
     total_spent |-> m.total_spent,
     is_new_customer |-> m.is_new_customer,
     r_score |-> r_score(m), f_score |-> f_score(m), m_score |-> m_score(m),
     rfm_group |-> rfm_group(m)]

RfmScore ==
    /\ script = "rfm"
    /\ pc = "scores"
    /\ customer_data' = [id \in DOMAIN customer_data |-> Scored(customer_data[id])]
    /\ pc' = "list"
    /\ UNCHANGED <<script, jsonl_data, lines_processed, invalid_lines, customers,
                   orders_by_customer, customer_list, notRfm>>

-----------------------------------------------------------------------------
(* RFM customer list: Step 3 of the document, the customer list *)

\* one tuple of customer_list
ListRow(id, m) ==
    [customer_id |-> id, rfm_group |-> m.rfm_group,
     days_since_last_order |-> m.days_since_last_order,
     total_orders |-> m.total_orders, total_spent |-> m.total_spent]

RECURSIVE SortedIds(_)
\* customer_list.sort(key=lambda x: x[0]): ids ascending (ids are single digits
\* here, for which the string order is the numeric order)
SortedIds(S) ==
    IF S = {} THEN <<>>
    ELSE LET least == CHOOSE x \in S : \A y \in S : x <= y
         IN <<least>> \o SortedIds(S \ {least})

BuildList(cd) ==
    [i \in 1..Cardinality(DOMAIN cd) |->
        ListRow(SortedIds(DOMAIN cd)[i], cd[SortedIds(DOMAIN cd)[i]])]

RfmGenerateList ==
    /\ script = "rfm"
    /\ pc = "list"
    /\ customer_list' = BuildList(customer_data)
    /\ pc' = "done"
    /\ UNCHANGED <<script, jsonl_data, lines_processed, invalid_lines, customers,
                   orders_by_customer, customer_data, notRfm>>

-----------------------------------------------------------------------------
(* RFM customer list: the run *)

InitRfm ==
    /\ script = "rfm"
    /\ pc = "first_pass"
    /\ ZeroAll

NextRfm ==
    \/ \E line \in RfmLines : RfmFirstPassLine(line)
    \/ RfmSecondPass
    \/ RfmCalcMetrics
    \/ RfmScore
    \/ RfmGenerateList

SpecRfm == InitRfm /\ [][NextRfm]_vars

-----------------------------------------------------------------------------
(* RFM: scoring on its own, over every tier of every threshold ladder *)

\* most orders a customer of the scoring runs has
MaxOrders == 11

\* metrics of customers as Step 2 leaves them
MetricsSamples ==
    { [days_since_last_order |-> d, total_orders |-> n, total_spent |-> t,
       is_new_customer |-> (n = 1)] :
        d \in {10, 45, 100, 200},
        n \in 1..MaxOrders,
        t \in {Units(40), Units(300), Units(600) + 1, Units(6000)} }

\* Step 3 entered with customer_data for two customers
InitScore ==
    /\ script = "rfm"
    /\ pc = "scores"
    /\ jsonl_data = <<>>
    /\ customers = EmptyMap
    /\ output_data = <<>>
    /\ lines_processed = 0
    /\ invalid_lines = 0
    /\ orders_by_customer = EmptyMap
    /\ customer_data \in [1..2 -> MetricsSamples]
    /\ customer_list = <<>>
    /\ ZeroPeriod /\ ZeroChannel /\ ZeroCohort /\ ZeroReturns
    /\ ZeroRate /\ ZeroInventory /\ ZeroType /\ ZeroLocation /\ ZeroInsights
    /\ ZeroNet /\ ZeroVariant /\ ZeroNewCust /\ ZeroLoader /\ ZeroFetch

NextScore == RfmScore \/ RfmGenerateList

SpecScore == InitScore /\ [][NextScore]_vars

-----------------------------------------------------------------------------
(* Calendar and rounding, shared by the sales scripts *)

\* A day "2025-mm-dd" is the number 100 * mm + dd; the order of the numbers
\* is the order of the strings.  All dates of the model lie in one year that
\* is not a leap year.
DayKey(m, d) == 100 * m + d
MonthOf(day) == day \div 100
DayOfMonth(day) == day % 100
DaysInMonth(m) == <<31, 28, 31, 30, 31, 30, 31, 31, 30, 31, 30, 31>>[m]
\* current_month - relativedelta(months=1)
PreviousMonth(m) == IF m = 1 THEN 12 ELSE m - 1

\* the greatest element of a non-empty set of numbers
MaxOf(S) == CHOOSE x \in S : \A y \in S : y <= x

\* round(x, 2) of a float that is v eighths, as a number of hundredths:
\* v eighths are 12.5 * v hundredths, and a tie goes to the even neighbour
Round2(v) ==
    LET a == IF v < 0 THEN 0 - v ELSE v
        q == (25 * a) \div 2
        up == IF (25 * a) % 2 = 0 THEN q
              ELSE IF q % 2 = 0 THEN q ELSE q + 1
    IN IF v < 0 THEN 0 - up ELSE up

RECURSIVE SumOf(_, _)
\* sum(...) over the elements s[i..] of a list of amounts
SumOf(s, i) == IF i > Len(s) THEN 0 ELSE s[i] + SumOf(s, i + 1)

-----------------------------------------------------------------------------
(* Total sales over time: input lines *)

\* the order bodies of the export: money in eighths, refunds a list of
\* totalRefundedSet amounts
TsBodies ==
    { [subtotal |-> 1, discounts |-> 0, shipping |-> 0, tax |-> 0, refunds |-> <<>>],
      [subtotal |-> Units(10), discounts |-> 1, shipping |-> Units(1), tax |-> 3,
       refunds |-> <<1, Units(2)>>],
      [subtotal |-> Units(10), discounts |-> 0, shipping |-> 0, tax |-> 0,
       refunds |-> <<0 - Units(2)>>],
      [subtotal |-> Units(10), discounts |-> MISSING, shipping |-> 0, tax |-> 0,
       refunds |-> <<>>] }

\* the days orders are created on
TsDays == {DayKey(2, 28), DayKey(3, 1), DayKey(3, 31)}

TsLines ==
    { [kind |-> k] : k \in {"blank", "malformed", "scalar", "other"} }
    \cup { [kind |-> "order", createdAt |-> d, body |-> b] : d \in TsDays, b \in TsBodies }
    \cup { [kind |-> "order", createdAt |-> BAD, body |-> b] :
             b \in {x \in TsBodies : x.subtotal = 1} }

-----------------------------------------------------------------------------
(* Total sales over time: Step 1, aggregate by day *)

\* the defaultdict's value for a new day
TsZero ==
    [orders |-> 0, gross_sales |-> 0, discounts |-> 0, returns |-> 0, net_sales |-> 0,
     shipping_charges |-> 0, duties |-> 0, additional_fees |-> 0, taxes |-> 0,
     total_sales |-> 0]

\* daily_data[day], creating it when absent
Bucket(dd, day, zero) == IF day \in DOMAIN dd THEN dd[day] ELSE zero

\* the extraction raises KeyError or ValueError, which the loop catches
TsRaises(line) ==
    \/ line.createdAt \in {MISSING, BAD}
    \/ \E f \in {"subtotal", "discounts", "shipping", "tax"} : line.body[f] \in {MISSING, BAD}

\* returns = sum(float(refund[...]) for refund in data["refunds"])
TsReturns(body) == SumOf(body.refunds, 1)

\* the "Aggregate metrics" block
TsFold(acc, body) ==
    [acc EXCEPT !.orders = @ + 1,
                !.gross_sales = @ + body.subtotal,
                !.discounts = @ + body.discounts,
                !.returns = @ + TsReturns(body),
                !.shipping_charges = @ + body.shipping,
                !.taxes = @ + body.tax,
                !.duties = 0,
                !.additional_fees = 0]

\* One iteration of "for line in file".
TsLine(line) ==
    /\ script = "total_sales"
    /\ pc = "read"
    /\ Len(jsonl_data) < MaxLines
    /\ jsonl_data' = Append(jsonl_data, line)
    /\ daily_data' =
          IF line.kind = "order" /\ ~TsRaises(line)
          THEN Put(daily_data, line.createdAt,
                   TsFold(Bucket(daily_data, line.createdAt, TsZero), line.body))
          ELSE daily_data
    /\ pc' = IF line.kind = "scalar" THEN "aborted" ELSE "read"
    /\ UNCHANGED <<script, current_period_data, previous_period_data, output_data,
                   notTotalSales>>

-----------------------------------------------------------------------------
(* Total sales over time: Step 2, derived metrics *)

\* a slip: returns left out of net sales
TsNetNoReturns(m) == m.gross_sales - m.discounts

\* metrics["net_sales"]
TsNet(m) == m.gross_sales - m.discounts - m.returns

TsDerive(m) ==
    [m EXCEPT !.net_sales = TsNet(m),
              !.total_sales = TsNet(m) + m.shipping_charges + m.duties
                                + m.additional_fees + m.taxes]

\* The file is exhausted: Step 2 runs over every day.
TsFinalize ==
    /\ script = "total_sales"
    /\ pc = "read"
    /\ daily_data' = [day \in DOMAIN daily_data |-> TsDerive(daily_data[day])]
    /\ pc' = "split"
    /\ UNCHANGED <<script, jsonl_data, current_period_data, previous_period_data,
                   output_data, notTotalSales>>

-----------------------------------------------------------------------------
(* Total sales over time: Steps 3 and 4, periods and rows *)

\* the dictionary stored for a day of a period, money in hundredths
TsRounded(day, m) ==
    [day |-> day, orders |-> m.orders,
     gross_sales |-> Round2(m.gross_sales), discounts |-> Round2(m.discounts),
     returns |-> Round2(m.returns), net_sales |-> Round2(m.net_sales),
     shipping_charges |-> Round2(m.shipping_charges), duties |-> Round2(m.duties),
     additional_fees |-> Round2(m.additional_fees), taxes |-> Round2(m.taxes),
     total_sales |-> Round2(m.total_sales)]

\* the default of .get for a day without orders
TsEmptyDay(day) ==
    [day |-> day, orders |-> 0, gross_sales |-> 0, discounts |-> 0, returns |-> 0,
     net_sales |-> 0, shipping_charges |-> 0, duties |-> 0, additional_fees |-> 0,
     taxes |-> 0, total_sales |-> 0]

\* current_month, from max(all_dates)
CurrentMonth(dd) == MonthOf(MaxOf(DOMAIN dd))

\* the days of daily_data that fall in month m, keyed by day of month
PeriodOf(dd, m) ==
    [dom \in {DayOfMonth(day) : day \in {x \in DOMAIN dd : MonthOf(x) = m}} |->
        TsRounded(DayKey(m, dom), dd[DayKey(m, dom)])]

\* Step 3.  With no day at all, max(all_dates) raises ValueError.
TsSplit ==
    /\ script = "total_sales"
    /\ pc = "split"
    /\ IF DOMAIN daily_data = {}
       THEN /\ pc' = "aborted"
            /\ UNCHANGED <<current_period_data, previous_period_data>>
       ELSE /\ current_period_data' = PeriodOf(daily_data, CurrentMonth(daily_data))
            /\ previous_period_data' =
                  PeriodOf(daily_data, PreviousMonth(CurrentMonth(daily_data)))
            /\ pc' = "output"
    /\ UNCHANGED <<script, jsonl_data, daily_data, output_data, notTotalSales>>

\* period.get(day_of_month, default)
PeriodGet(period, dom, default) == IF dom \in DOMAIN period THEN period[dom] ELSE default

RECURSIVE TsRows(_, _, _, _)
\* the rows appended for day_of_month = dom .. last; a day of month that the
\* previous month does not have fails strptime and the row is skipped
TsRows(cur, prev, dom, m) ==
    IF dom > DaysInMonth(m) THEN <<>>
    ELSE IF dom > DaysInMonth(PreviousMonth(m)) THEN TsRows(cur, prev, dom + 1, m)
    ELSE <<[current |-> PeriodGet(cur, dom, TsEmptyDay(DayKey(m, dom))),
            previous |-> PeriodGet(prev, dom, TsEmptyDay(DayKey(PreviousMonth(m), dom)))]>>
         \o TsRows(cur, prev, dom + 1, m)

\* Step 4
TsOutput ==
    /\ script = "total_sales"
    /\ pc = "output"
    /\ output_data' = TsRows(current_period_data, previous_period_data, 1,
                             CurrentMonth(daily_data))
    /\ pc' = "done"
    /\ UNCHANGED <<script, jsonl_data, daily_data, current_period_data,
                   previous_period_data, notTotalSales>>

InitTotalSales ==
    /\ script = "total_sales"
    /\ pc = "read"
    /\ ZeroAll

NextTotalSales ==
    \/ \E line \in TsLines : TsLine(line)
    \/ TsFinalize
    \/ TsSplit
    \/ TsOutput

SpecTotalSales == InitTotalSales /\ [][NextTotalSales]_vars

-----------------------------------------------------------------------------
(* Total sales by sales channel: input lines *)

\* publication.name, app.name ("" when the field is null or has no name)
\* and whether referrerUrl contains "yourstore.com"
ChSources ==
    { [publication |-> "Online Store", app |-> "", own_referrer |-> FALSE],
      [publication |-> "", app |-> "Draft Orders", own_referrer |-> FALSE],
      [publication |-> "", app |-> "", own_referrer |-> TRUE],
      [publication |-> "", app |-> "", own_referrer |-> FALSE] }

ChBodies ==
    { [subtotal |-> Units(10), discounts |-> 1, refunded |-> 1, shipping |-> Units(1),
       tax |-> 3],
      [subtotal |-> 1, discounts |-> 0, refunded |-> 0 - Units(2), shipping |-> 0,
       tax |-> 0],
      [subtotal |-> Units(5), discounts |-> 3, refunded |-> MISSING, shipping |-> Units(1),
       tax |-> 0] }

ChLines ==
    { [kind |-> k] : k \in {"blank", "malformed", "scalar", "other"} }
    \cup { [kind |-> "order", source |-> src, body |-> b] :
             src \in ChSources, b \in ChBodies }

-----------------------------------------------------------------------------
(* Total sales by sales channel: the loop over the file *)

\* "Determine sales channel"
SalesChannel(src) ==
    IF src.publication # "" THEN src.publication
    ELSE IF src.app # "" THEN src.app
    ELSE IF src.own_referrer THEN "Online Store"
    ELSE "Unknown Channel"

ChZero ==
    [orders |-> 0, gross_sales |-> 0, discounts |-> 0, returns |-> 0,
     shipping_charges |-> 0, taxes |-> 0]

\* the money statements in the order the loop executes them:
\* <<field of the order, field of the accumulator>>
ChStatements ==
    << <<"subtotal", "gross_sales">>, <<"discounts", "discounts">>,
       <<"refunded", "returns">>, <<"shipping", "shipping_charges">>,
       <<"tax", "taxes">> >>

RECURSIVE ChAdd(_, _, _)
\* statements i.. applied to the accumulator; the first absent field raises
\* KeyError and the statements after it are not reached
ChAdd(acc, body, i) ==
    IF i > Len(ChStatements) THEN acc
    ELSE IF body[ChStatements[i][1]] \in {MISSING, BAD} THEN acc
    ELSE ChAdd([acc EXCEPT ![ChStatements[i][2]] = @ + body[ChStatements[i][1]]],
               body, i + 1)

\* "Increment order count", then "Add financial amounts"
ChFold(acc, body) == ChAdd([acc EXCEPT !.orders = @ + 1], body, 1)

ChLine(line) ==
    /\ script = "channel"
    /\ pc = "read"
    /\ Len(jsonl_data) < MaxLines
    /\ jsonl_data' = Append(jsonl_data, line)
    /\ sales_channel_data' =
          IF line.kind = "order"
          THEN Put(sales_channel_data, SalesChannel(line.source),
                   ChFold(Bucket(sales_channel_data, SalesChannel(line.source), ChZero),
                          line.body))
          ELSE sales_channel_data
    /\ pc' = IF line.kind = "scalar" THEN "aborted" ELSE "read"
    /\ UNCHANGED <<script, output_data, notChannel>>

-----------------------------------------------------------------------------
(* Total sales by sales channel: Steps 1 and 2, rows *)

\* net_sales = gross_sales + discounts + returns, the two negated before
ChNet(m) == m.gross_sales + (0 - m.discounts) + (0 - m.returns)

ChRow(channel, m) ==
    [sales_channel |-> channel, orders |-> m.orders,
     gross_sales |-> Round2(m.gross_sales),
     discounts |-> Round2(0 - m.discounts),
     returns |-> Round2(0 - m.returns),
     net_sales |-> Round2(ChNet(m)),
     shipping_charges |-> Round2(m.shipping_charges),
     taxes |-> Round2(m.taxes),
     total_sales |-> Round2(ChNet(m) + m.shipping_charges + m.taxes)]

RECURSIVE FirstSeen(_, _, _)
\* the keys of a dictionary in insertion order: Key(line) of the lines i.. of
\* the input that insert, without repetition
FirstSeen(keys, i, seen) ==
    IF i > Len(keys) THEN <<>>
    ELSE IF keys[i] \in seen THEN FirstSeen(keys, i + 1, seen)
    ELSE <<keys[i]>> \o FirstSeen(keys, i + 1, seen \cup {keys[i]})

\* sales_channel_data.keys(), in insertion order
ChannelKeys ==
    LET orders == SelectSeq(jsonl_data, LAMBDA l : l.kind = "order")
    IN FirstSeen([i \in 1..Len(orders) |-> SalesChannel(orders[i].source)], 1, {})

RECURSIVE InsertDesc(_, _)
\* row put into the sorted rows that followed it in the list: after the rows
\* with a greater total, before the rows with an equal one
InsertDesc(row, sorted) ==
    IF sorted = <<>> THEN <<row>>
    ELSE IF row.total_sales >= Head(sorted).total_sales THEN <<row>> \o sorted
    ELSE <<Head(sorted)>> \o InsertDesc(row, Tail(sorted))

RECURSIVE SortDesc(_, _)
\* output_data.sort(key=Total sales, reverse=True): stable
SortDesc(rows, i) ==
    IF i > Len(rows) THEN <<>>
    ELSE InsertDesc(rows[i], SortDesc(rows, i + 1))

ChOutput ==
    /\ script = "channel"
    /\ pc = "read"
    /\ output_data' =
          SortDesc([i \in 1..Len(ChannelKeys) |->
                       ChRow(ChannelKeys[i], sales_channel_data[ChannelKeys[i]])], 1)
    /\ pc' = "done"
    /\ UNCHANGED <<script, jsonl_data, sales_channel_data, notChannel>>

InitChannel ==
    /\ script = "channel"
    /\ pc = "read"
    /\ ZeroAll

NextChannel ==
    \/ \E line \in ChLines : ChLine(line)
    \/ ChOutput

SpecChannel == InitChannel /\ [][NextChannel]_vars

\* the two reports that carry gross, discounts, returns and net sales
InitSales == InitTotalSales \/ InitChannel
NextSales == NextTotalSales \/ NextChannel
SpecSales == InitSales /\ [][NextSales]_vars

-----------------------------------------------------------------------------
(* Helpers of the rate and average computations *)

\* a / b for b > 0, rounded to the nearest integer, halves to the even one:
\* round(x, n) and format(x, ".nf") of a quotient once both sides are scaled
RoundDiv(a, b) ==
    LET q == a \div b
        r == a % b
    IN IF 2 * r < b THEN q
       ELSE IF 2 * r > b THEN q + 1
       ELSE IF q % 2 = 0 THEN q ELSE q + 1

RECURSIVE SumField(_, _, _)
\* the sum of s[j][field] over j = i .. Len(s)
SumField(s, field, i) ==
    IF i > Len(s) THEN 0 ELSE s[i][field] + SumField(s, field, i + 1)

RECURSIVE Ascending(_)
\* sorted(S) for a set of integers
Ascending(S) ==
    IF S = {} THEN <<>>
    ELSE LET m == CHOOSE x \in S : \A y \in S : x <= y
         IN <<m>> \o Ascending(S \ {m})

-----------------------------------------------------------------------------
(* Customer cohort analysis: input lines *)

CohortDays == {DayKey(2, 10), DayKey(3, 31), DayKey(4, 15)}

CohortBodies ==
    { [subtotal |-> Units(10) + 1, discounts |-> 1, tax |-> 3, shipping |-> Units(1),
       total |-> Units(11) + 3],
      [subtotal |-> MISSING, discounts |-> 0, tax |-> 0, shipping |-> 0, total |-> 1] }

CohortLines ==
    { [kind |-> k] : k \in {"blank", "malformed", "scalar", "other"} }
    \cup { [kind |-> "customer", id |-> c, createdAt |-> DayKey(1, 1)] : c \in CustIds }
    \cup { [kind |-> "order", parent |-> c, createdAt |-> d, body |-> b] :
             c \in CustIds, d \in CohortDays, b \in CohortBodies }
    \cup { [kind |-> "order", parent |-> 1, createdAt |-> d, body |-> b] :
             d \in {MISSING, BAD}, b \in {x \in CohortBodies : x.total = 1} }
    \cup { [kind |-> "order", parent |-> 1, createdAt |-> DayKey(4, 15),
            body |-> [subtotal |-> BAD, discounts |-> 0, tax |-> 0, shipping |-> 0,
                      total |-> 1]] }

-----------------------------------------------------------------------------
(* Customer cohort analysis: Step 1, link orders to customers *)

\* float(data.get(set, {}).get("shopMoney", {}).get("amount", "0.0"))
CohortAmount(x) == IF x = MISSING THEN 0 ELSE x

\* strptime of an ill-formed createdAt, or float of an ill-formed amount:
\* ValueError, which the loop catches
CohortRaises(line) ==
    \/ line.createdAt = BAD
    \/ \E f \in {"subtotal", "discounts", "tax", "shipping", "total"} : line.body[f] = BAD

\* "id" in data on a value that is no object, or strptime(None): TypeError,
\* which the loop does not catch
CohortAborts(line) ==
    \/ line.kind = "scalar"
    \/ line.kind = "order" /\ line.createdAt = MISSING

CohortOrder(line) ==
    [order_date |-> line.createdAt,
     gross_sales |-> CohortAmount(line.body.subtotal),
     discounts |-> CohortAmount(line.body.discounts),
     taxes |-> CohortAmount(line.body.tax),
     shipping |-> CohortAmount(line.body.shipping),
     total_sales |-> CohortAmount(line.body.total)]

\* the order line got as far as customer_orders[customer_id].append
CohortAppends(line) == line.kind = "order" /\ ~CohortAborts(line) /\ ~CohortRaises(line)

\* "Update first order date for the customer"; customers[customer_id] of an
\* unknown customer raises KeyError after the append
CohortFirstOrder(cs, line) ==
    IF line.parent \notin DOMAIN cs THEN cs
    ELSE IF cs[line.parent].first_order_date = None
            \/ line.createdAt < cs[line.parent].first_order_date
         THEN [cs EXCEPT ![line.parent].first_order_date = line.createdAt]
         ELSE cs

CohortLine(line) ==
    /\ script = "cohort"
    /\ pc = "read"
    /\ Len(jsonl_data) < MaxLines
    /\ jsonl_data' = Append(jsonl_data, line)
    /\ customers' =
          IF line.kind = "customer"
          THEN Put(customers, line.id,
                   [createdAt |-> line.createdAt, first_order_date |-> None])
          ELSE IF CohortAppends(line) THEN CohortFirstOrder(customers, line)
          ELSE customers
    /\ customer_orders' =
          IF CohortAppends(line)
          THEN Put(customer_orders, line.parent,
                   Append(Bucket(customer_orders, line.parent, <<>>), CohortOrder(line)))
          ELSE customer_orders
    /\ pc' = IF CohortAborts(line) THEN "aborted" ELSE "read"
    /\ UNCHANGED <<script, customer_cohorts, cohort_metrics, notCohort>>

-----------------------------------------------------------------------------
(* Customer cohort analysis: Step 2, cohorts *)

\* customers.keys(), in insertion order
CustomerKeys ==
    LET lines == SelectSeq(jsonl_data, LAMBDA l : l.kind = "customer")
    IN FirstSeen([i \in 1..Len(lines) |-> lines[i].id], 1, {})

\* info["first_order_date"].strftime("%Y-%m")
CohortPeriod(c) == MonthOf(customers[c].first_order_date)

CohortGroup ==
    /\ script = "cohort"
    /\ pc = "read"
    /\ customer_cohorts' =
          LET with_orders == {c \in DOMAIN customers : customers[c].first_order_date # None}
          IN [m \in {CohortPeriod(c) : c \in with_orders} |->
                SelectSeq(CustomerKeys,
                          LAMBDA c : c \in with_orders /\ CohortPeriod(c) = m)]
    /\ pc' = "metrics"
    /\ UNCHANGED <<script, jsonl_data, customers, customer_orders, cohort_metrics,
                   notCohort>>

-----------------------------------------------------------------------------
(* Customer cohort analysis: Steps 3 and 4, rows *)

\* the cohort months and datetime(2025, 4, 1)
all_months == DOMAIN customer_cohorts \cup {MonthOf(DayKey(4, 1))}

RECURSIVE OrdersIn(_, _, _)
\* the orders of the customers ids[i..] dated in current_month
OrdersIn(ids, current_month, i) ==
    IF i > Len(ids) THEN <<>>
    ELSE SelectSeq(Bucket(customer_orders, ids[i], <<>>),
                   LAMBDA o : MonthOf(o.order_date) = current_month)
         \o OrdersIn(ids, current_month, i + 1)

\* total_gross_sales / total_orders if total_orders > 0 else 0.0, 2 decimals
average_order_value(total_gross_sales, total_orders) ==
    IF total_orders > 0 THEN RoundDiv(100 * total_gross_sales, 8 * total_orders) ELSE 0

\* total_orders / total_customers if total_customers > 0 else 0.0, 2 decimals
average_number_of_orders(total_orders, total_customers) ==
    IF total_customers > 0 THEN RoundDiv(100 * total_orders, total_customers) ELSE 0

\* total_total_sales / total_customers if total_customers > 0 else 0.0, 2 decimals
amount_spent_per_customer(total_total_sales, total_customers) ==
    IF total_customers > 0 THEN RoundDiv(100 * total_total_sales, 8 * total_customers)
    ELSE 0

\* len(repeat_customers) / total_customers * 100 under its two conditions
customer_retention(repeat, total_customers, periods_since_first) ==
    IF total_customers > 0 /\ periods_since_first > 0
    THEN RoundDiv(100 * 100 * repeat, total_customers)
    ELSE 0

\* the row of a cohort for a month, money and ratios in hundredths
CohortRow(cohort_period, current_month) ==
    LET customers_in_cohort == customer_cohorts[cohort_period]
        total_customers == Len(customers_in_cohort)
        periods_since_first == current_month - cohort_period
        orders == OrdersIn(customers_in_cohort, current_month, 1)
        total_orders == Len(orders)
        total_gross_sales == SumField(orders, "gross_sales", 1)
        total_discounts == SumField(orders, "discounts", 1)
        total_total_sales == SumField(orders, "total_sales", 1)
        repeat_customers ==
            {i \in 1..total_customers :
                /\ OrdersIn(<<customers_in_cohort[i]>>, current_month, 1) # <<>>
                /\ periods_since_first > 0}
    IN [Customer_cohort_period |-> cohort_period,
        Periods_since_first_purchase |-> periods_since_first,
        Total_customers |-> total_customers,
        Total_gross_sales |-> Round2(total_gross_sales),
        Total_net_sales |-> Round2(total_gross_sales - total_discounts),
        Average_order_value |-> average_order_value(total_gross_sales, total_orders),
        Total_orders |-> total_orders,
        Average_number_of_orders |->
            average_number_of_orders(total_orders, total_customers),
        Total_total_sales |-> Round2(total_total_sales),
        Amount_spent_per_customer |->
            amount_spent_per_customer(total_total_sales, total_customers),
        Customer_retention |->
            customer_retention(Cardinality(repeat_customers), total_customers,
                               periods_since_first)]

RECURSIVE CohortRows(_, _)
\* the rows of the cohorts cohorts[i..], each over the months from its own on:
\* the order Step 4 sorts them into
CohortRows(cohorts, i) ==
    IF i > Len(cohorts) THEN <<>>
    ELSE LET months == Ascending({m \in all_months : m >= cohorts[i]})
         IN [j \in 1..Len(months) |-> CohortRow(cohorts[i], months[j])]
            \o CohortRows(cohorts, i + 1)

CohortMetrics ==
    /\ script = "cohort"
    /\ pc = "metrics"
    /\ cohort_metrics' = CohortRows(Ascending(DOMAIN customer_cohorts), 1)
    /\ pc' = "done"
    /\ UNCHANGED <<script, jsonl_data, customers, customer_orders, customer_cohorts,
                   notCohort>>

InitCohort ==
    /\ script = "cohort"
    /\ pc = "read"
    /\ ZeroAll

NextCohort ==
    \/ \E line \in CohortLines : CohortLine(line)
    \/ CohortGroup
    \/ CohortMetrics

SpecCohort == InitCohort /\ [][NextCohort]_vars

-----------------------------------------------------------------------------
(* Items returned over time: input lines *)

\* the refunds of an order: id, createdAt and totalRefundedSet amount
ItRefunds ==
    { << [id |-> 1, createdAt |-> DayKey(4, 29), amount |-> Units(2)] >>,
      << [id |-> 2, createdAt |-> DayKey(4, 29), amount |-> 1],
         [id |-> 3, createdAt |-> DayKey(4, 30), amount |-> 3] >>,
      << [id |-> 4, createdAt |-> DayKey(3, 29), amount |-> 0 - 1],
         [id |-> 1, createdAt |-> BAD, amount |-> Units(1)] >>,
      << [id |-> 4, createdAt |-> DayKey(5, 1), amount |-> Units(1)] >> }

ItLines ==
    { [kind |-> k] : k \in {"blank", "malformed", "scalar", "other"} }
    \cup { [kind |-> "order", id |-> o, refunds |-> r] : o \in {1, 2}, r \in ItRefunds }

-----------------------------------------------------------------------------
(* Items returned over time: Step 1, refunds by day *)

CURRENT_START == DayKey(4, 1)
CURRENT_END == DayKey(4, 30)
PREVIOUS_START == DayKey(3, 1)
PREVIOUS_END == DayKey(3, 31)

\* "Determine the period"
ItPeriod(created_at) ==
    IF CURRENT_START <= created_at /\ created_at <= CURRENT_END THEN "current"
    ELSE IF PREVIOUS_START <= created_at /\ created_at <= PREVIOUS_END THEN "previous"
    ELSE "outside"

\* "Initialize data structure for the day"
ItZero == [orders |-> 0, total_refunded |-> 0, quantity_returned |-> 0]

\* strptime or float of an ill-formed field, or a missing key
ItRaises(refund) ==
    refund.createdAt \in {MISSING, BAD} \/ refund.amount \in {MISSING, BAD}

\* "Update metrics" on data_by_day[day]
ItUpdate(data_by_day, day, counted, amount) ==
    LET m == Bucket(data_by_day, day, ItZero) IN
    Put(data_by_day, day,
        [m EXCEPT !.orders = IF counted THEN @ ELSE @ + 1,
                  !.total_refunded = @ + (IF amount < 0 THEN 0 - amount ELSE amount)])

\* one iteration of "for refund in refunds" on the four structures
ItRefund(st, order_id, refund) ==
    LET period == ItPeriod(refund.createdAt)
        counted == <<order_id, period>> \in st.orders_with_refunds
    IN IF period = "outside" THEN st
       ELSE [current_data_by_day |->
                IF period = "current"
                THEN ItUpdate(st.current_data_by_day, refund.createdAt, counted,
                              refund.amount)
                ELSE st.current_data_by_day,
             previous_data_by_day |->
                IF period = "previous"
                THEN ItUpdate(st.previous_data_by_day, refund.createdAt, counted,
                              refund.amount)
                ELSE st.previous_data_by_day,
             orders_with_refunds |-> st.orders_with_refunds \cup {<<order_id, period>>},
             refund_to_day |-> Put(st.refund_to_day, refund.id,
                                   <<refund.createdAt, period>>)]

RECURSIVE ItRefundsFrom(_, _, _, _)
\* the refunds i.. of an order; a refund that raises ends the line and keeps
\* what the refunds before it did
ItRefundsFrom(st, order_id, refunds, i) ==
    IF i > Len(refunds) THEN st
    ELSE IF ItRaises(refunds[i]) THEN st
    ELSE ItRefundsFrom(ItRefund(st, order_id, refunds[i]), order_id, refunds, i + 1)

ItLine(line) ==
    /\ script = "items_returned"
    /\ pc = "read"
    /\ Len(jsonl_data) < MaxLines
    /\ jsonl_data' = Append(jsonl_data, line)
    /\ LET st == [current_data_by_day |-> current_data_by_day,
                  previous_data_by_day |-> previous_data_by_day,
                  orders_with_refunds |-> orders_with_refunds,
                  refund_to_day |-> refund_to_day]
           after == IF line.kind = "order"
                    THEN ItRefundsFrom(st, line.id, line.refunds, 1)
                    ELSE st
       IN /\ current_data_by_day' = after.current_data_by_day
          /\ previous_data_by_day' = after.previous_data_by_day
          /\ orders_with_refunds' = after.orders_with_refunds
          /\ refund_to_day' = after.refund_to_day
    /\ pc' = IF line.kind = "scalar" THEN "aborted" ELSE "read"
    /\ UNCHANGED <<script, aggregated_data, refunds_left, notReturns>>

-----------------------------------------------------------------------------
(* Items returned over time: Step 3, quantities of the refunds *)

\* the refund ids a line puts into refund_to_day, in order: those of the
\* refunds before the first that raises, unless outside both periods
ItInserted(line) ==
    IF line.kind # "order" THEN <<>>
    ELSE LET raising == {i \in 1..Len(line.refunds) : ItRaises(line.refunds[i])}
             last == IF raising = {} THEN Len(line.refunds)
                     ELSE (CHOOSE i \in raising : \A j \in raising : i <= j) - 1
             taken == SelectSeq(SubSeq(line.refunds, 1, last),
                                LAMBDA r : ItPeriod(r.createdAt) # "outside")
         IN [i \in 1..Len(taken) |-> taken[i].id]

RECURSIVE ItInsertedFrom(_)
ItInsertedFrom(i) ==
    IF i > Len(jsonl_data) THEN <<>>
    ELSE ItInserted(jsonl_data[i]) \o ItInsertedFrom(i + 1)

\* refund_to_day.keys(), in insertion order
ItRefundKeys == FirstSeen(ItInsertedFrom(1), 1, {})

\* Step 2 of the second script: the intermediate data is loaded and the loop
\* over refund_to_day.items() begins
ItLoad ==
    /\ script = "items_returned"
    /\ pc = "read"
    /\ refunds_left' = ItRefundKeys
    /\ pc' = "fetch"
    /\ UNCHANGED <<script, jsonl_data, returnsVars, notReturns>>

\* what the query for a refund comes to: a reply with the quantities of the
\* refund line items (none, one, two), a reply whose node is null, a status
\* other than 200
ItReplies ==
    { [kind |-> "data", quantities |-> q] : q \in {<<>>, <<1>>, <<2, 1>>} }
    \cup { [kind |-> k, quantities |-> <<>>] : k \in {"no_node", "failed"} }

\* quantity_returned += edge["node"]["quantity"], over the edges
ItQuantity(reply) == SumOf(reply.quantities, 1)

\* "Update quantity returned for the corresponding day and period"
ItAddQuantity(data_by_day, day, quantity_returned) ==
    [data_by_day EXCEPT ![day].quantity_returned = @ + quantity_returned]

\* One round trip of the loop: the query for the next refund and, on a reply
\* with line items, the update of its day.  A failed query and a reply
\* without node go on to the next refund at once.
ItFetch(reply) ==
    /\ script = "items_returned"
    /\ pc = "fetch"
    /\ refunds_left # <<>>
    /\ refunds_left' = Tail(refunds_left)
    /\ LET day == refund_to_day[Head(refunds_left)][1]
           period == refund_to_day[Head(refunds_left)][2]
       IN /\ current_data_by_day' =
                IF reply.kind = "data" /\ period = "current"
                THEN ItAddQuantity(current_data_by_day, day, ItQuantity(reply))
                ELSE current_data_by_day
          /\ previous_data_by_day' =
                IF reply.kind = "data" /\ period = "previous"
                THEN ItAddQuantity(previous_data_by_day, day, ItQuantity(reply))
                ELSE previous_data_by_day
    /\ pc' = IF reply.kind = "data" THEN "sleep" ELSE "fetch"
    /\ UNCHANGED <<script, jsonl_data, refund_to_day, orders_with_refunds,
                   aggregated_data, notReturns>>

\* time.sleep(0.5) after the update
ItSleep ==
    /\ script = "items_returned"
    /\ pc = "sleep"
    /\ pc' = "fetch"
    /\ UNCHANGED <<script, jsonl_data, returnsVars, refunds_left, notReturns>>

\* the loop is over: final_data.json is written
ItSave ==
    /\ script = "items_returned"
    /\ pc = "fetch"
    /\ refunds_left = <<>>
    /\ pc' = "merge"
    /\ UNCHANGED <<script, jsonl_data, returnsVars, refunds_left, notReturns>>

-----------------------------------------------------------------------------
(* Items returned over time: Step 4, rows *)

RECURSIVE DaysBefore(_)
\* the days of the year before month m
DaysBefore(m) == IF m = 1 THEN 0 ELSE DaysBefore(m - 1) + DaysInMonth(m - 1)

DayOfYear(day) == DaysBefore(MonthOf(day)) + DayOfMonth(day)

DayOnDayOfYear(n) ==
    LET m == CHOOSE x \in 1..12 : DaysBefore(x) < n /\ n <= DaysBefore(x) + DaysInMonth(x)
    IN DayKey(m, n - DaysBefore(m))

\* day - timedelta(days=31)
get_previous_period_day(day) == DayOnDayOfYear(DayOfYear(day) - 31)

\* a slip: the quotient without its guard, -1 standing for what a division
\* by zero leaves in the field
avg_order_value_unguarded(total_refunded, orders) ==
    IF orders # 0 THEN RoundDiv(100 * total_refunded, 8 * orders) ELSE 0 - 1

\* total_refunded / orders if orders > 0 else 0.0, as the CSV shows it (.2f)
avg_order_value(total_refunded, orders) ==
    IF orders > 0 THEN RoundDiv(100 * total_refunded, 8 * orders) ELSE 0

ItRow(day) ==
    LET current_metrics == current_data_by_day[day]
        prev_day == get_previous_period_day(day)
        previous_metrics == Bucket(previous_data_by_day, prev_day, ItZero)
    IN [day |-> day,
        orders |-> current_metrics.orders,
        quantity_returned |-> current_metrics.quantity_returned,
        avg_order_value |->
            avg_order_value(current_metrics.total_refunded, current_metrics.orders),
        prev_day |-> prev_day,
        prev_orders |-> previous_metrics.orders,
        prev_quantity_returned |-> previous_metrics.quantity_returned,
        prev_avg_order_value |->
            avg_order_value(previous_metrics.total_refunded, previous_metrics.orders)]

\* "if not current_data_by_day: exit()", else a row for each day in order
ItMerge ==
    /\ script = "items_returned"
    /\ pc = "merge"
    /\ IF DOMAIN current_data_by_day = {}
       THEN /\ pc' = "exit"
            /\ UNCHANGED aggregated_data
       ELSE /\ aggregated_data' =
                  LET days == Ascending(DOMAIN current_data_by_day)
                  IN [i \in 1..Len(days) |-> ItRow(days[i])]
            /\ pc' = "done"
    /\ UNCHANGED <<script, jsonl_data, current_data_by_day, previous_data_by_day,
                   refund_to_day, orders_with_refunds, refunds_left,
                   notReturns>>

InitReturns ==
    /\ script = "items_returned"
    /\ pc = "read"
    /\ ZeroAll

NextReturns ==
    \/ \E line \in ItLines : ItLine(line)
    \/ ItLoad
    \/ \E reply \in ItReplies : ItFetch(reply)
    \/ ItSleep
    \/ ItSave
    \/ ItMerge

SpecReturns == InitReturns /\ [][NextReturns]_vars

-----------------------------------------------------------------------------
(* Returning customer rate over time: input lines *)

\* customer 0 stands for an order whose customer is null or has no id;
\* child tells whether the record carries a __parentId
RateLines ==
    { [kind |-> k] : k \in {"blank", "malformed", "scalar", "other"} }
    \cup { [kind |-> "order", id |-> o, customer |-> c, child |-> FALSE, createdAt |-> d] :
             o \in {1, 2}, c \in 0..NumCustomers, d \in {DayKey(3, 31), DayKey(4, 1)} }
    \cup { [kind |-> "order", id |-> 1, customer |-> 1, child |-> ch, createdAt |-> d] :
             ch \in {TRUE}, d \in {DayKey(4, 1)} }
    \cup { [kind |-> "order", id |-> 1, customer |-> 1, child |-> FALSE, createdAt |-> d] :
             d \in {MISSING, BAD} }

-----------------------------------------------------------------------------
(* Returning customer rate over time: Step 1, customers by day *)

\* the defaultdict's value for a new day
RateZero == [customers |-> {}, returning_customers |-> 0]

\* the line passes the three "continue" tests and is recorded as processed
RateProcessed(line) ==
    /\ line.kind = "order"
    /\ line.id \notin processed_orders
    /\ ~line.child
    /\ line.customer # 0

\* data["createdAt"] is absent or ill-formed: KeyError or ValueError
RateRaises(line) == line.createdAt \in {MISSING, BAD}

RateLine(line) ==
    /\ script = "returning_rate"
    /\ pc = "read"
    /\ Len(jsonl_data) < MaxLines
    /\ jsonl_data' = Append(jsonl_data, line)
    /\ processed_orders' =
          IF RateProcessed(line) THEN processed_orders \cup {line.id} ELSE processed_orders
    /\ daily_data' =
          IF RateProcessed(line) /\ ~RateRaises(line)
          THEN Put(daily_data, line.createdAt,
                   [Bucket(daily_data, line.createdAt, RateZero)
                       EXCEPT !.customers = @ \cup {line.customer}])
          ELSE daily_data
    /\ pc' = IF line.kind = "scalar" THEN "aborted" ELSE "read"
    /\ UNCHANGED <<script, current_period_data, previous_period_data, output_data,
                   notRate>>

-----------------------------------------------------------------------------
(* Returning customer rate over time: Steps 3 and 4, periods and rows *)

\* returning_customers / customers if customers > 0 else 0.0, in thousandths
rate(returning, n_customers) ==
    IF n_customers > 0 THEN RoundDiv(1000 * returning, n_customers) ELSE 0

RateOfDay(day, metrics) ==
    [day |-> day,
     customers |-> Cardinality(metrics.customers),
     returning_customers |-> metrics.returning_customers,
     rate |-> rate(metrics.returning_customers, Cardinality(metrics.customers))]

\* the default of .get for a day without customers
RateEmptyDay(day) == [day |-> day, customers |-> 0, returning_customers |-> 0, rate |-> 0]

RatePeriodOf(dd, m) ==
    [dom \in {DayOfMonth(day) : day \in {x \in DOMAIN dd : MonthOf(x) = m}} |->
        RateOfDay(DayKey(m, dom), dd[DayKey(m, dom)])]

\* Step 3.  With no day at all, max(all_dates) raises ValueError.
RateSplit ==
    /\ script = "returning_rate"
    /\ pc = "read"
    /\ IF DOMAIN daily_data = {}
       THEN /\ pc' = "aborted"
            /\ UNCHANGED <<current_period_data, previous_period_data>>
       ELSE /\ current_period_data' = RatePeriodOf(daily_data, CurrentMonth(daily_data))
            /\ previous_period_data' =
                  RatePeriodOf(daily_data, PreviousMonth(CurrentMonth(daily_data)))
            /\ pc' = "output"
    /\ UNCHANGED <<script, jsonl_data, daily_data, processed_orders, output_data, notRate>>

RECURSIVE RateRows(_, _, _, _)
\* the rows appended for day_of_month = dom .. last; a day of month that the
\* previous month does not have fails strptime and the row is skipped
RateRows(cur, prev, dom, m) ==
    IF dom > DaysInMonth(m) THEN <<>>
    ELSE IF dom > DaysInMonth(PreviousMonth(m)) THEN RateRows(cur, prev, dom + 1, m)
    ELSE <<[current |-> PeriodGet(cur, dom, RateEmptyDay(DayKey(m, dom))),
            previous |-> PeriodGet(prev, dom, RateEmptyDay(DayKey(PreviousMonth(m), dom)))]>>
         \o RateRows(cur, prev, dom + 1, m)

\* Step 4
RateOutput ==
    /\ script = "returning_rate"
    /\ pc = "output"
    /\ output_data' = RateRows(current_period_data, previous_period_data, 1,
                               CurrentMonth(daily_data))
    /\ pc' = "done"
    /\ UNCHANGED <<script, jsonl_data, daily_data, processed_orders, current_period_data,
                   previous_period_data, notRate>>

InitRate ==
    /\ script = "returning_rate"
    /\ pc = "read"
    /\ ZeroAll

NextRate ==
    \/ \E line \in RateLines : RateLine(line)
    \/ RateSplit
    \/ RateOutput

SpecRate == InitRate /\ [][NextRate]_vars

-----------------------------------------------------------------------------
(* Inventory sales: input lines of the two files *)

\* id 0 stands for a record without id; inventoryQuantity may be absent
VariantLines ==
    { [kind |-> k] : k \in {"blank", "malformed", "scalar"} }
    \cup { [kind |-> "variant", id |-> v, sku |-> v, inventoryQuantity |-> n] :
             v \in {1, 2}, n \in {MISSING, 0, 3, 0 - 2} }
    \cup { [kind |-> "variant", id |-> 0, sku |-> 0, inventoryQuantity |-> 3] }

\* the line items of an order: variant id (0 when it has none) and quantity
InvItems ==
    { << [variant |-> 1, quantity |-> 1] >>,
      << [variant |-> 1, quantity |-> 2], [variant |-> 2, quantity |-> 1] >>,
      << [variant |-> 0, quantity |-> 1], [variant |-> 2, quantity |-> MISSING] >>,
      << [variant |-> 3, quantity |-> 1] >> }

InvOrderLines ==
    { [kind |-> k] : k \in {"blank", "malformed", "scalar"} }
    \cup { [kind |-> "order", lineItems |-> items] : items \in InvItems }

-----------------------------------------------------------------------------
(* Inventory sales: Steps 1 and 2, the two files *)

\* json.loads of an ill-formed line, or record.get on a value that is no
\* object: neither loop has a try
InvAborts(line) == line.kind \in {"malformed", "scalar"}

\* record.get("inventoryQuantity", 0)
InvEnding(n) == IF n = MISSING THEN 0 ELSE n

InvVariantLine(line) ==
    /\ script = "inventory"
    /\ pc = "variants"
    /\ Len(jsonl_data) < MaxLines
    /\ jsonl_data' = Append(jsonl_data, line)
    /\ variant_data' =
          IF line.kind = "variant" /\ line.id # 0
          THEN Put(variant_data, line.id,
                   [product_variant_sku |-> line.sku,
                    ending_quantity |-> InvEnding(line.inventoryQuantity)])
          ELSE variant_data
    /\ pc' = IF InvAborts(line) THEN "aborted" ELSE "variants"
    /\ UNCHANGED <<script, quantity_sold, output_data, notInventory>>

\* product_variants.jsonl is exhausted
InvOpenOrders ==
    /\ script = "inventory"
    /\ pc = "variants"
    /\ pc' = "orders"
    /\ UNCHANGED <<script, jsonl_data, variant_data, quantity_sold, output_data,
                   notInventory>>

RECURSIVE InvSold(_, _, _)
\* quantity_sold after the line items i.. of an order
InvSold(sold, items, i) ==
    IF i > Len(items) THEN sold
    ELSE IF items[i].variant = 0 THEN InvSold(sold, items, i + 1)
    ELSE InvSold(Put(sold, items[i].variant,
                     Bucket(sold, items[i].variant, 0)
                        + (IF items[i].quantity = MISSING THEN 0 ELSE items[i].quantity)),
                 items, i + 1)

InvOrderLine(line) ==
    /\ script = "inventory"
    /\ pc = "orders"
    /\ Len(jsonl_data) < MaxLines
    /\ jsonl_data' = Append(jsonl_data, line)
    /\ quantity_sold' =
          IF line.kind = "order" THEN InvSold(quantity_sold, line.lineItems, 1)
          ELSE quantity_sold
    /\ pc' = IF InvAborts(line) THEN "aborted" ELSE "orders"
    /\ UNCHANGED <<script, variant_data, output_data, notInventory>>

-----------------------------------------------------------------------------
(* Inventory sales: Step 3, rows *)

\* (qty_sold / total_available) if total_available > 0 else 0.0, 3 decimals
sell_through_rate(qty_sold, total_available) ==
    IF total_available > 0 THEN RoundDiv(1000 * qty_sold, total_available) ELSE 0

InvRow(variant_id) ==
    LET qty_sold == Bucket(quantity_sold, variant_id, 0)
        ending_qty == variant_data[variant_id].ending_quantity
        starting_qty == ending_qty + qty_sold
        total_available == starting_qty + qty_sold
    IN [product_variant_sku |-> variant_data[variant_id].product_variant_sku,
        starting_quantity |-> starting_qty,
        ending_quantity |-> ending_qty,
        quantity_sold |-> qty_sold,
        sell_through_rate |-> sell_through_rate(qty_sold, total_available)]

\* variant_data.keys(), in insertion order
VariantKeys ==
    LET lines == SelectSeq(jsonl_data, LAMBDA l : l.kind = "variant" /\ l.id # 0)
    IN FirstSeen([i \in 1..Len(lines) |-> lines[i].id], 1, {})

InvOutput ==
    /\ script = "inventory"
    /\ pc = "orders"
    /\ output_data' = [i \in 1..Len(VariantKeys) |-> InvRow(VariantKeys[i])]
    /\ pc' = "done"
    /\ UNCHANGED <<script, jsonl_data, variant_data, quantity_sold, notInventory>>

InitInventory ==
    /\ script = "inventory"
    /\ pc = "variants"
    /\ ZeroAll

NextInventory ==
    \/ \E line \in VariantLines : InvVariantLine(line)
    \/ InvOpenOrders
    \/ \E line \in InvOrderLines : InvOrderLine(line)
    \/ InvOutput

SpecInventory == InitInventory /\ [][NextInventory]_vars

\* the four reports that carry a rate or an average
InitRates == InitCohort \/ InitReturns \/ InitRate \/ InitInventory
NextRates == NextCohort \/ NextReturns \/ NextRate \/ NextInventory
SpecRates == InitRates /\ [][NextRates]_vars

-----------------------------------------------------------------------------
(* Sales attributed to marketing: input lines *)

\* referrerUrl, named by the host it contains ("" for null), and sourceName
MkSources ==
    { [referrer_url |-> "instagram.com", source_name |-> ""],
      [referrer_url |-> "google.com", source_name |-> ""],
      [referrer_url |-> "", source_name |-> "shopify_email"],
      [referrer_url |-> "", source_name |-> "pd_catalog_06/10"],
      [referrer_url |-> "example.com", source_name |-> "web"] }

MkBodies ==
    { [subtotal |-> Units(10), discounts |-> 0, refunded |-> 0, shipping |-> 0, tax |-> 0],
      [subtotal |-> Units(10) + 1, discounts |-> 1, refunded |-> 1, shipping |-> Units(1),
       tax |-> 3] }

MkLines ==
    { [kind |-> k] : k \in {"blank", "malformed", "scalar", "other"} }
    \cup { [kind |-> "order", createdAt |-> d, source |-> src, body |-> b] :
             d \in {DayKey(4, 2), DayKey(3, 5)}, src \in MkSources, b \in MkBodies }
    \cup { [kind |-> "order", createdAt |-> d, source |-> src, body |-> b] :
             d \in {DayKey(2, 1), BAD},
             src \in {x \in MkSources : x.source_name = "web"},
             b \in {x \in MkBodies : x.tax = 0} }
    \cup { [kind |-> "order", createdAt |-> DayKey(4, 2), source |-> src,
            body |-> [subtotal |-> Units(10), discounts |-> 0, refunded |-> 0,
                      shipping |-> 0, tax |-> MISSING]] :
             src \in {x \in MkSources : x.source_name = "web"} }

-----------------------------------------------------------------------------
(* Sales attributed to marketing: the loop over the file *)

\* the campaign names the function knows
known_campaigns ==
    { "pd_cost_cap_catalog_10/10", "pd_catalog_audience_testing_abo_06/10",
      "pd_cbo_roas_saree_14/10/2024", "pd_cbo_saree_cost_cap_10/10/2024",
      "pd_sales_sidewide_sales_16/11", "gokwik", "bofu_conversions_september-2024",
      "whatmore-live", "pd_surfing_open_catalog_18/10", "pd_abo_navratri sale_ct_03/10",
      "pd_surfing_wedding_combine_18/10", "bestsellers_tof_conversion", "pd_catalog_06/10",
      "pg_tof-conversions", "pd_abo_creative_testing_04/10", "razorpay" }

infer_channel_and_medium(referrer_url, source_name) ==
    IF referrer_url = "instagram.com" THEN <<"instagram", "social">>
    ELSE IF referrer_url = "facebook.com" THEN <<"facebook", "social">>
    ELSE IF referrer_url = "google.com" THEN <<"google", "search">>
    ELSE IF referrer_url = "yahoo.com" THEN <<"yahoo!", "search">>
    ELSE IF referrer_url = "googlesyndication.com" THEN <<"googlesyndication", "">>
    ELSE IF source_name = "shopify_email" THEN <<"shopify_email", "email">>
    ELSE IF source_name = "abandoned_cart" THEN <<"abandoned_cart", "email">>
    ELSE IF source_name \in known_campaigns THEN <<source_name, "">>
    ELSE <<"direct", "">>

\* the defaultdict's value for a new key
MkZero == [orders |-> 0, gross_sales |-> 0, net_sales |-> 0, total_sales |-> 0]

\* is_current_period / is_previous_period
MkPeriod(created_at) ==
    IF MonthOf(created_at) = MonthOf(DayKey(4, 1)) THEN "current"
    ELSE IF MonthOf(created_at) = MonthOf(DayKey(3, 1)) THEN "previous"
    ELSE "outside"

\* strptime or a money field raises, before any accumulator is touched
MkRaises(line) ==
    \/ line.createdAt \in {MISSING, BAD}
    \/ /\ MkPeriod(line.createdAt) # "outside"
       /\ \E f \in {"subtotal", "discounts", "refunded", "shipping", "tax"} :
             line.body[f] \in {MISSING, BAD}

\* the order is added to the data of a period
MkCounts(line) ==
    line.kind = "order" /\ ~MkRaises(line) /\ MkPeriod(line.createdAt) # "outside"

\* "Calculate financial metrics"
MkNetSales(body) == body.subtotal - body.discounts - body.refunded
MkTotalSales(body) == MkNetSales(body) + body.shipping + body.tax

\* "Assign to current or previous period": the four += on target_data[key]
MkFold(target_data, key, body) ==
    LET m == Bucket(target_data, key, MkZero) IN
    Put(target_data, key,
        [m EXCEPT !.orders = @ + 1,
                  !.gross_sales = @ + body.subtotal,
                  !.net_sales = @ + MkNetSales(body),
                  !.total_sales = @ + MkTotalSales(body)])

MkKey(line) == infer_channel_and_medium(line.source.referrer_url, line.source.source_name)

MkLine(line) ==
    /\ script = "marketing"
    /\ pc = "read"
    /\ Len(jsonl_data) < MaxLines
    /\ jsonl_data' = Append(jsonl_data, line)
    /\ current_period_data' =
          IF MkCounts(line) /\ MkPeriod(line.createdAt) = "current"
          THEN MkFold(current_period_data, MkKey(line), line.body)
          ELSE current_period_data
    /\ previous_period_data' =
          IF MkCounts(line) /\ MkPeriod(line.createdAt) = "previous"
          THEN MkFold(previous_period_data, MkKey(line), line.body)
          ELSE previous_period_data
    /\ pc' = IF line.kind = "scalar" THEN "aborted" ELSE "read"
    /\ UNCHANGED <<script, output_data, notMarketing>>

-----------------------------------------------------------------------------
(* Sales attributed to marketing: Steps 1 and 2, rows *)

\* set(current_period_data.keys()).union(set(previous_period_data.keys()))
all_keys == DOMAIN current_period_data \cup DOMAIN previous_period_data

\* the orders in which "for key in all_keys" can visit a set of tuples of
\* strings: the order follows the strings' hashes, which differ from one
\* interpreter process to the next
IterationOrders(S) ==
    {ord \in [1..Cardinality(S) -> S] : \A i, j \in 1..Cardinality(S) :
                                           ord[i] = ord[j] => i = j}

MkRow(key) ==
    LET current == Bucket(current_period_data, key, MkZero)
        previous == Bucket(previous_period_data, key, MkZero)
    IN [channel |-> key[1], medium |-> key[2],
        orders |-> current.orders,
        total_sales |-> Round2(current.total_sales),
        gross_sales |-> Round2(current.gross_sales),
        net_sales |-> Round2(current.net_sales),
        prev_orders |-> previous.orders,
        prev_total_sales |-> Round2(previous.total_sales),
        prev_gross_sales |-> Round2(previous.gross_sales),
        prev_net_sales |-> Round2(previous.net_sales)]

\* the rows appended in an iteration order, then sorted by Total sales
MkSorted(ord) == SortDesc([i \in 1..Len(ord) |-> MkRow(ord[i])], 1)

MkOutput ==
    /\ script = "marketing"
    /\ pc = "read"
    /\ \E ord \in IterationOrders(all_keys) : output_data' = MkSorted(ord)
    /\ pc' = "done"
    /\ UNCHANGED <<script, jsonl_data, current_period_data, previous_period_data,
                   notMarketing>>

InitMarketing ==
    /\ script = "marketing"
    /\ pc = "read"
    /\ ZeroAll

NextMarketing ==
    \/ \E line \in MkLines : MkLine(line)
    \/ MkOutput

SpecMarketing == InitMarketing /\ [][NextMarketing]_vars

\* the two reports whose accumulators carry net sales and total sales
InitDerived == InitTotalSales \/ InitMarketing
NextDerived == NextTotalSales \/ NextMarketing
SpecDerived == InitDerived /\ [][NextDerived]_vars

-----------------------------------------------------------------------------
(* New customer sales over time: input lines *)

notNewSales == <<customers, rfmOnly, periodVars, output_data, channelVars, cohortVars,
                 current_data_by_day, previous_data_by_day, refund_to_day,
                 orders_with_refunds, rateVars, inventoryVars,
                 locationVars,
                 insightVars,
                 netVars,
                 variantVars,
                 newCustVars,
                 loaderVars,
                 fetchVars>>

\* the five money fields of an order, in eighths; MISSING for an absent key
NcsBodies ==
    { [subtotal |-> Units(40), discounts |-> Units(4), refunded |-> 0,
       tax |-> Units(2), shipping |-> Units(5)],
      [subtotal |-> Units(10) + 1, discounts |-> 0, refunded |-> Units(3),
       tax |-> 0, shipping |-> 0] }

\* customer 0 stands for an order whose customer is null or has no id;
\* totalOrders is the customer's totalOrders, MISSING for an absent key
NcsLines ==
    { [kind |-> k] : k \in {"blank", "malformed", "scalar", "other"} }
    \cup { [kind |-> "order", customer |-> c, totalOrders |-> n, createdAt |-> d,
            body |-> CHOOSE b \in NcsBodies : b.refunded = 0] :
             c \in 1..NumCustomers, n \in {1, 2}, d \in {DayKey(4, 1), DayKey(3, 1)} }
    \cup { [kind |-> "order", customer |-> 1, totalOrders |-> 1, createdAt |-> d,
            body |-> b] :
             d \in {DayKey(4, 2), DayKey(2, 1), MISSING, BAD},
             b \in {x \in NcsBodies : x.refunded # 0} }
    \cup { [kind |-> "order", customer |-> c, totalOrders |-> n, createdAt |-> DayKey(4, 1),
            body |-> b] :
             c \in {0}, n \in {MISSING}, b \in {x \in NcsBodies : x.refunded # 0} }
    \cup { [kind |-> "order", customer |-> 1, totalOrders |-> MISSING,
            createdAt |-> DayKey(4, 1),
            body |-> [b EXCEPT !.tax = MISSING]] :
             b \in {x \in NcsBodies : x.refunded = 0} }

-----------------------------------------------------------------------------
(* New customer sales over time: Step 1, buckets by day and customer type *)

\* "Initialize data structure for the day and customer type"
NcsZero == [customers |-> {}, orders |-> 0, total_sales |-> 0]

\* data["createdAt"] absent or ill-formed: KeyError or ValueError, caught
NcsDateRaises(line) == line.createdAt \in {MISSING, BAD}

\* a money key is absent: KeyError, caught
NcsMoneyRaises(line) ==
    \E f \in {"subtotal", "discounts", "refunded", "tax", "shipping"} :
        line.body[f] = MISSING

\* "New Customer" if total_orders == 1 else "Returning Customer", where
\* total_orders = int(customer.get("totalOrders", 0))
customer_type(line) ==
    LET total_orders == IF line.totalOrders = MISSING THEN 0 ELSE line.totalOrders
    IN IF total_orders = 1 THEN "New Customer" ELSE "Returning Customer"

\* gross_sales - discounts - returns + taxes + shipping
NcsTotalSales(body) ==
    body.subtotal - body.discounts - body.refunded + body.tax + body.shipping

\* the order reaches "Update metrics"
NcsCounts(line) ==
    /\ line.kind = "order"
    /\ ~NcsDateRaises(line)
    /\ ItPeriod(line.createdAt) # "outside"
    /\ line.customer # 0
    /\ ~NcsMoneyRaises(line)

\* the three updates of the bucket
NcsUpdate(d, line) ==
    LET key == <<line.createdAt, customer_type(line)>>
    IN Put(d, key,
           [customers |-> Bucket(d, key, NcsZero).customers \cup {line.customer},
            orders |-> Bucket(d, key, NcsZero).orders + 1,
            total_sales |-> Bucket(d, key, NcsZero).total_sales
                              + NcsTotalSales(line.body)])

\* One iteration of the loop.  A scalar fails the test "id" not in data with
\* a TypeError, which the except clause does not name.
NcsLine(line) ==
    /\ script = "new_customer_sales"
    /\ pc = "read"
    /\ Len(jsonl_data) < MaxLines
    /\ jsonl_data' = Append(jsonl_data, line)
    /\ current_data_by_day_and_type' =
          IF NcsCounts(line) /\ ItPeriod(line.createdAt) = "current"
          THEN NcsUpdate(current_data_by_day_and_type, line)
          ELSE current_data_by_day_and_type
    /\ previous_data_by_day_and_type' =
          IF NcsCounts(line) /\ ItPeriod(line.createdAt) = "previous"
          THEN NcsUpdate(previous_data_by_day_and_type, line)
          ELSE previous_data_by_day_and_type
    /\ pc' = IF line.kind = "scalar" THEN "aborted" ELSE "read"
    /\ UNCHANGED <<script, aggregated_data, notNewSales>>

-----------------------------------------------------------------------------
(* New customer sales over time: Step 2, rows with the previous period *)

\* a slip: the customers column fed by a running counter
NcsCustomersCounted(metrics) == metrics.orders

\* len(metrics["customers"])
NcsCustomers(metrics) == Cardinality(metrics.customers)

\* the position of a key under sorted(..., key=lambda x: (x[0], x[1]))
NcsRank(key) == 2 * key[1] + (IF key[2] = "New Customer" THEN 0 ELSE 1)

NcsSortedKeys(d) ==
    LET ranks == Ascending({NcsRank(key) : key \in DOMAIN d})
    IN [i \in 1..Len(ranks) |-> CHOOSE key \in DOMAIN d : NcsRank(key) = ranks[i]]

NcsRow(key) ==
    LET current_metrics == current_data_by_day_and_type[key]
        prev_day == get_previous_period_day(key[1])
        previous_metrics ==
            Bucket(previous_data_by_day_and_type, <<prev_day, key[2]>>, NcsZero)
    IN [customer_type |-> key[2],
        day |-> key[1],
        customers |-> NcsCustomers(current_metrics),
        orders |-> current_metrics.orders,
        total_sales |-> current_metrics.total_sales,
        day_previous_period |-> prev_day,
        customers_previous_period |-> NcsCustomers(previous_metrics),
        orders_previous_period |-> previous_metrics.orders,
        total_sales_previous_period |-> previous_metrics.total_sales]

NcsAggregate ==
    /\ script = "new_customer_sales"
    /\ pc = "read"
    /\ aggregated_data' =
          LET keys == NcsSortedKeys(current_data_by_day_and_type)
          IN [i \in 1..Len(keys) |-> NcsRow(keys[i])]
    /\ pc' = "done"
    /\ UNCHANGED <<script, jsonl_data, typeVars, notNewSales>>

InitNewSales ==
    /\ script = "new_customer_sales"
    /\ pc = "read"
    /\ ZeroAll

NextNewSales ==
    \/ \E line \in NcsLines : NcsLine(line)
    \/ NcsAggregate

SpecNewSales == InitNewSales /\ [][NextNewSales]_vars

-----------------------------------------------------------------------------
(* Customers by location: input lines *)

notLocation == <<customer_data, customer_list, periodVars, output_data, channelVars,
                 cohortVars, returnsVars, rateVars, inventoryVars, typeVars,
                 insightVars,
                 netVars,
                 variantVars,
                 newCustVars,
                 loaderVars,
                 fetchVars>>

\* a key of the address that is absent, and a key whose value is null
NoKey == "<absent>"
Null == "<null>"
\* data.get("defaultAddress") is None: the key is absent or its value is null
NoAddress == [none |-> TRUE]

\* defaultAddress of a customer record: none, or an address whose three
\* components are a string, NoKey or Null
LocAddresses ==
    { NoAddress,
      [country |-> "India", provinceCode |-> "MH", city |-> "Mumbai"],
      [country |-> "India", provinceCode |-> NoKey, city |-> NoKey],
      [country |-> Null, provinceCode |-> "ZZ", city |-> "ZZ"] }

LocLines ==
    { [kind |-> k] : k \in {"blank", "malformed", "scalar", "other"} }
    \cup { [kind |-> "customer", id |-> c, defaultAddress |-> a] :
             c \in CustIds, a \in LocAddresses }
    \cup { [kind |-> "order", parent |-> p] : p \in ParentRefs }

-----------------------------------------------------------------------------
(* Customers by location: first and second pass *)

\* customers[customer_id] = data, with data["orders"] = {"edges": []}
LocAddCustomer(cs, line) ==
    Put(cs, line.id, [id |-> line.id, orders |-> <<>>,
                      defaultAddress |-> line.defaultAddress])

\* orders_by_customer[parent_id].append(data)
LocAddOrder(obc, line, n) ==
    Put(obc, line.parent,
        Append(IF line.parent \in DOMAIN obc THEN obc[line.parent] ELSE <<>>,
               [line |-> n, parent |-> line.parent]))

\* the lines that add 1 to invalid_lines
LocLineInvalid(line) ==
    \/ line.kind \in {"malformed", "other"}
    \/ line.kind = "order" /\ line.parent = 0

\* One iteration of the first pass.  A scalar makes `"id" in data` raise
\* TypeError, which the except clause does not name.
LocFirstPassLine(line) ==
    /\ script = "location"
    /\ pc = "first_pass"
    /\ Len(jsonl_data) < MaxLines
    /\ jsonl_data' = Append(jsonl_data, line)
    /\ lines_processed' = lines_processed + 1
    /\ invalid_lines' = IF LocLineInvalid(line) THEN invalid_lines + 1 ELSE invalid_lines
    /\ customers' = IF line.kind = "customer" THEN LocAddCustomer(customers, line)
                    ELSE customers
    /\ orders_by_customer' =
           IF line.kind = "order" /\ line.parent # 0
           THEN LocAddOrder(orders_by_customer, line, lines_processed + 1)
           ELSE orders_by_customer
    /\ pc' = IF line.kind = "scalar" THEN "aborted" ELSE "first_pass"
    /\ UNCHANGED <<script, locationVars, notLocation>>

\* "Second pass: Reconstruct nested structure"
LocSecondPass ==
    /\ script = "location"
    /\ pc = "first_pass"
    /\ customers' = Attach(customers, orders_by_customer)
    /\ pc' = "count"
    /\ UNCHANGED <<script, jsonl_data, lines_processed, invalid_lines,
                   orders_by_customer, locationVars, notLocation>>

-----------------------------------------------------------------------------
(* Customers by location: Step 2, new customers by location *)

\* default_address.get(key, default): the default only for an absent key
AddressGet(address, key, default) ==
    IF address[key] = NoKey THEN default ELSE address[key]

\* (country, region, city) of a customer record
location_key(data) ==
    IF data.defaultAddress = NoAddress
    THEN <<"Unknown", "ZZ", "ZZ">>
    ELSE <<AddressGet(data.defaultAddress, "country", "Unknown"),
           AddressGet(data.defaultAddress, "provinceCode", "ZZ"),
           AddressGet(data.defaultAddress, "city", "ZZ")>>

\* a slip: customers with at least one order taken for new
is_new_customer_at_least(data) == Len(data.orders) >= 1

\* len(orders) == 1
is_new_customer(data) == Len(data.orders) = 1

\* the customers that increment the bucket key
LocNewAt(key) ==
    {c \in DOMAIN customers :
        is_new_customer(customers[c]) /\ location_key(customers[c]) = key}

\* the loop of Step 2, as the dictionary it leaves
LocCount ==
    /\ script = "location"
    /\ pc = "count"
    /\ location_counts' =
          [key \in {location_key(customers[c]) :
                      c \in {x \in DOMAIN customers : is_new_customer(customers[x])}}
             |-> Cardinality(LocNewAt(key))]
    /\ pc' = "sort"
    /\ UNCHANGED <<script, jsonl_data, customers, lines_processed, invalid_lines,
                   orders_by_customer, location_list, notLocation>>

-----------------------------------------------------------------------------
(* Customers by location: Steps 3 and 4, the sorted rows *)

\* the strings of the sample addresses, in the order of Python's str <
LocStrings == <<"India", "MH", "Mumbai", "Unknown", "ZZ">>
LocRank(s) == CHOOSE i \in 1..Len(LocStrings) : LocStrings[i] = s

\* the first component in which two keys differ, 0 when they are equal
LocFirstDiff(k1, k2) ==
    IF k1 = k2 THEN 0 ELSE CHOOSE i \in 1..3 : k1[i] # k2[i] /\ \A j \in 1..(i - 1) : k1[j] = k2[j]

\* comparing the sort keys (-count, country, region, city) of two locations
\* compares None with a str: TypeError
LocCompareRaises(k1, k2) ==
    /\ location_counts[k1] = location_counts[k2]
    /\ LocFirstDiff(k1, k2) # 0
    /\ (k1[LocFirstDiff(k1, k2)] = Null) # (k2[LocFirstDiff(k1, k2)] = Null)

\* (-count, country, region, city) of k1 sorts before that of k2
LocBefore(k1, k2) ==
    \/ location_counts[k1] > location_counts[k2]
    \/ /\ location_counts[k1] = location_counts[k2]
       /\ LocFirstDiff(k1, k2) # 0
       /\ k1[LocFirstDiff(k1, k2)] # Null
       /\ k2[LocFirstDiff(k1, k2)] # Null
       /\ LocRank(k1[LocFirstDiff(k1, k2)]) < LocRank(k2[LocFirstDiff(k1, k2)])

RECURSIVE LocSorted(_)
\* sorted(location_counts.items(), key=...) over the keys S
LocSorted(S) ==
    IF S = {} THEN <<>>
    ELSE LET k == CHOOSE x \in S : \A y \in S \ {x} : LocBefore(x, y)
         IN <<[country |-> k[1], region |-> k[2], city |-> k[3],
               new_customer_count |-> location_counts[k]]>> \o LocSorted(S \ {k})

\* Step 3.  sorted() compares the keys of two locations whenever there are
\* two; with more, it raises if a pair it compares raises.
LocList ==
    /\ script = "location"
    /\ pc = "sort"
    /\ IF \E k1, k2 \in DOMAIN location_counts : LocCompareRaises(k1, k2)
       THEN /\ pc' = "aborted"
            /\ UNCHANGED location_list
       ELSE /\ location_list' = LocSorted(DOMAIN location_counts)
            /\ pc' = "done"
    /\ UNCHANGED <<script, jsonl_data, customers, lines_processed, invalid_lines,
                   orders_by_customer, location_counts, notLocation>>

InitLocation ==
    /\ script = "location"
    /\ pc = "first_pass"
    /\ ZeroAll

NextLocation ==
    \/ \E line \in LocLines : LocFirstPassLine(line)
    \/ LocSecondPass
    \/ LocCount
    \/ LocList

SpecLocation == InitLocation /\ [][NextLocation]_vars

-----------------------------------------------------------------------------
(* generateInsights: texts *)

notInsights == <<jsonl_data, customers, rfmOnly, periodVars, output_data, channelVars,
                 cohortVars, returnsVars, rateVars, inventoryVars, typeVars,
                 locationVars,
                 netVars,
                 variantVars,
                 newCustVars,
                 loaderVars,
                 fetchVars>>

\* A text is a sequence of tokens; the empty sequence is the empty string.
\* The tokens of a reply: the two fences, the line break, the blank, the
\* punctuation of a JSON array, JSON string literals, a JSON number, the
\* numbers of a numbered list, and words.
\* three backticks, and three backticks with the word json
Fence == "<fence>"
FenceJson == "<fence>json"
Whitespace == {" ", "\n"}
Literals == {"\"A\"", "\"\"", "\" \""}
JsonNumbers == {"7"}
NumberDots == {"1.", "2.", "3.", "4.", "5.", "6."}

\* the string a JSON string literal denotes
Unquote(t) ==
    CASE t = "\"A\"" -> <<"A">>
      [] t = "\"\"" -> <<>>
      [] t = "\" \"" -> <<" ">>

RECURSIVE TrimStart(_)
TrimStart(s) ==
    IF s # <<>> /\ Head(s) \in Whitespace THEN TrimStart(Tail(s)) ELSE s

RECURSIVE TrimEnd(_)
TrimEnd(s) ==
    IF s # <<>> /\ s[Len(s)] \in Whitespace THEN TrimEnd(SubSeq(s, 1, Len(s) - 1)) ELSE s

\* String.prototype.trim
Trim(s) == TrimEnd(TrimStart(s))

\* JSON.parse of a text without objects and nested arrays: whitespace between
\* the tokens is skipped; the text is an array of literals and numbers, a
\* single value, or a SyntaxError
JSON_parse(text) ==
    LET s == SelectSeq(text, LAMBDA t : t \notin Whitespace)
        n == Len(s)
        value(t) == t \in Literals \cup JsonNumbers
    IN IF /\ n >= 2 /\ s[1] = "[" /\ s[n] = "]"
          /\ (n = 2 \/ (n % 2 = 1 /\ \A i \in 2..(n - 1) :
                                        IF i % 2 = 0 THEN value(s[i]) ELSE s[i] = ","))
       THEN [ok |-> TRUE, array |-> TRUE,
             items |-> [i \in 1..((n - 1) \div 2) |-> s[2 * i]]]
       ELSE IF n = 1 /\ value(s[1])
            THEN [ok |-> TRUE, array |-> FALSE, items |-> <<>>]
            ELSE [ok |-> FALSE, array |-> FALSE, items |-> <<>>]

\* a slip: the test of the parsed value without its test of the strings
GiValidLengthOnly(parsed) ==
    /\ parsed.ok
    /\ parsed.array
    /\ Len(parsed.items) = 5

\* Array.isArray(insights) && insights.length === 5 &&
\* insights.every(i => typeof i === 'string' && i.trim())
GiValid(parsed) ==
    /\ parsed.ok
    /\ parsed.array
    /\ Len(parsed.items) = 5
    /\ \A i \in 1..Len(parsed.items) :
          parsed.items[i] \in Literals /\ Trim(Unquote(parsed.items[i])) # <<>>

\* the strings of a parsed array; a number stands as its own text
GiStrings(parsed) ==
    [i \in 1..Len(parsed.items) |->
        IF parsed.items[i] \in Literals THEN Unquote(parsed.items[i])
        ELSE <<parsed.items[i]>>]

RECURSIVE RemoveFences(_)
\* content.replace(..., ''), the pattern being the json fence with its line
\* break, or three backticks: a json fence that no line break follows loses
\* its three backticks and leaves the word json
RemoveFences(s) ==
    IF s = <<>> THEN <<>>
    ELSE IF Head(s) = FenceJson /\ Len(s) >= 2 /\ s[2] = "\n"
         THEN RemoveFences(SubSeq(s, 3, Len(s)))
    ELSE IF Head(s) = FenceJson THEN <<"json">> \o RemoveFences(Tail(s))
    ELSE IF Head(s) = Fence THEN RemoveFences(Tail(s))
    ELSE <<Head(s)>> \o RemoveFences(Tail(s))

RECURSIVE Split(_, _)
\* content.split at the line breaks: the lines of s, cur being the line under way
Split(s, cur) ==
    IF s = <<>> THEN <<cur>>
    ELSE IF Head(s) = "\n" THEN <<cur>> \o Split(Tail(s), <<>>)
    ELSE Split(Tail(s), Append(cur, Head(s)))

\* /^\d+\.\s/.test(line)
Numbered(line) == Len(line) >= 2 /\ line[1] \in NumberDots /\ line[2] \in Whitespace

\* line.replace(/^\d+\.\s*/, '').trim()
Unnumbered(line) == Trim(Tail(line))

\* the numbered lines of the text without their numbers, five at most
NumberedList(text) ==
    LET lines == SelectSeq(Split(text, <<>>), LAMBDA line : Trim(line) # <<>>)
        items == SelectSeq(lines, Numbered)
    IN [i \in 1..(IF Len(items) < 5 THEN Len(items) ELSE 5) |-> Unnumbered(items[i])]

\* the block "Preprocess the response to handle different formats": the
\* insights, or thrown when the last attempt fails
GiExtract(content) ==
    LET first == JSON_parse(content)
        stripped == Trim(RemoveFences(content))
        second == JSON_parse(stripped)
        numbered == NumberedList(stripped)
    IN IF GiValid(first) THEN [thrown |-> FALSE, insights |-> GiStrings(first)]
       ELSE IF GiValid(second) THEN [thrown |-> FALSE, insights |-> GiStrings(second)]
       ELSE IF Len(numbered) = 5 /\ \A i \in 1..5 : Trim(numbered[i]) # <<>>
            THEN [thrown |-> FALSE, insights |-> numbered]
            ELSE [thrown |-> TRUE, insights |-> <<>>]

-----------------------------------------------------------------------------
(* generateInsights: the replies of the completion endpoint *)

GiArray(a, b, c, d, e) == <<"[", a, ",", b, ",", c, ",", d, ",", e, "]">>
GiGood == GiArray("\"A\"", "\"A\"", "\"A\"", "\"A\"", "\"A\"")
GiItem(n) == <<n, " ", "A">>
RECURSIVE GiList(_)
\* a numbered list of k lines
GiList(k) ==
    IF k = 1 THEN GiItem("1.")
    ELSE GiList(k - 1) \o <<"\n">> \o GiItem(<<"1.", "2.", "3.", "4.", "5.", "6.">>[k])

\* the content of the first choice
GiContents ==
    { GiGood,
      <<"[", "\n", " ", "\"A\"", ",", "\"A\"", ",", "\"A\"", ",", "\"A\"", ",", "\"A\"",
        "\n", "]">>,
      <<FenceJson, "\n">> \o GiGood \o <<"\n", Fence>>,
      <<Fence, "\n">> \o GiGood \o <<"\n", Fence>>,
      <<FenceJson, " ">> \o GiGood \o <<Fence>>,
      <<"Here:", "\n">> \o GiGood,
      GiArray("\"A\"", "\"A\"", "\"A\"", "\"A\"", "\"\""),
      GiArray("\"A\"", "\"A\"", "\" \"", "\"A\"", "\"A\""),
      GiArray("\"A\"", "\"A\"", "\"A\"", "\"A\"", "7"),
      <<"[", "\"A\"", ",", "\"A\"", ",", "\"A\"", ",", "\"A\"", "]">>,
      <<"[", "\"A\"", ",">>,
      <<"[", "]">>,
      <<"\"A\"">>,
      <<"Sorry">>,
      GiList(5),
      GiList(6),
      GiList(4),
      <<"Here:", "\n", "\n">> \o GiList(5) \o <<"\n">>,
      <<Fence, "\n">> \o GiList(5) \o <<"\n", Fence>>,
      GiList(4) \o <<"\n", "5.", " ">>,
      GiList(4) \o <<"\n", "5.", "A">>,
      GiList(4) \o <<"\n", " ", "5.", " ", "A">>,
      GiList(4) \o <<"\n", "5.", " ", " ", "A", " ">> }

\* the content of the first choice when it is an array of strings
GiArrayContents ==
    { <<>>,
      <<GiGood>>,
      <<GiGood, GiGood>>,
      << <<"[", "\"A\"", ",", "\"A\"">>, <<"\"A\"", ",", "\"A\"", ",", "\"A\"", "]">> >>,
      << <<FenceJson, "\n">> \o GiGood \o <<"\n", Fence>> >>,
      <<GiList(5)>> }

\* What await fetch(...) comes to: it rejects, or it resolves to a response
\* whose status is not ok, or to one whose status is ok.
GiStatuses == {"network_error", "not_ok", "ok"}

\* What the body of the response comes to: the text of a response that is
\* not ok; a body that is no JSON; a body without choices; a first choice
\* without content or with an empty one; a content that is a number, a
\* boolean or an object; a content that is an array of strings; or a
\* content that is a text.
GiResponses ==
    { [outcome |-> o, content |-> <<>>] :
         o \in {"not_ok", "body_not_json", "no_choices", "no_content",
                "content_not_string"} }
    \cup { [outcome |-> "content_array", content |-> c] : c \in GiArrayContents }
    \cup { [outcome |-> "content", content |-> c] : c \in GiContents }

-----------------------------------------------------------------------------
(* generateInsights *)

\* returned when OPENAI_API_KEY is not set
GiMissingKey(type) ==
    << <<"Failed to generate ", type, " insights due to missing API key.">>,
       <<"Set the OPENAI_API_KEY environment variable.">>,
       <<"Ensure the API key is valid for the OpenAI service.">>,
       <<"Verify OpenAI account permissions.">>,
       <<"Contact OpenAI support if issues persist.">> >>

\* returned when there is no data
GiNoData(type) ==
    << <<"No ", type, " data available for analysis.">>,
       <<"Check the data source for valid ", type, " records.">>,
       <<"Ensure the Shopify API permissions include read_", type, ".">>,
       <<"Verify the date range or cursor for relevant data.">>,
       <<"Contact support if ", type, " data issues persist.">> >>

\* returned by the catch clause
GiApiError(type) ==
    << <<"Failed to generate ", type, " insights due to an API error.">>,
       <<"Check the OPENAI_API_KEY configuration.">>,
       <<"Ensure the API key is valid for the OpenAI service.">>,
       <<"Verify network connectivity to the OpenAI endpoint.">>,
       <<"Retry the request or contact OpenAI support.">> >>

\* The call and its two guards.  The data is null, an empty array or an
\* array of objects, as the loader passes it.
GiGuards(type, key, data) ==
    /\ script = "insights"
    /\ pc = "call"
    /\ dataType' = type
    /\ OPENAI_API_KEY' = key
    /\ dataset' = data
    /\ IF ~key THEN insights' = GiMissingKey(type) /\ pc' = "returned"
       ELSE IF data \in {"null", "empty"}
            THEN insights' = GiNoData(type) /\ pc' = "returned"
            ELSE insights' = <<>> /\ pc' = "fetch"
    /\ UNCHANGED <<script, response, notInsights>>

\* await fetch(...): a rejection is caught by the catch clause; otherwise
\* the function goes on to read the body
GiFetch(status) ==
    /\ script = "insights"
    /\ pc = "fetch"
    /\ response' = [outcome |-> status, content |-> <<>>]
    /\ IF status = "network_error"
       THEN insights' = GiApiError(dataType) /\ pc' = "returned"
       ELSE pc' = "body" /\ UNCHANGED insights
    /\ UNCHANGED <<script, dataType, OPENAI_API_KEY, dataset, notInsights>>

\* await response.text() of a response that is not ok, or await
\* response.json() and the content of the first choice; every failure is
\* thrown inside the try block
GiBody(r) ==
    /\ script = "insights"
    /\ pc = "body"
    /\ (response.outcome = "not_ok") <=> (r.outcome = "not_ok")
    /\ response' = r
    /\ IF r.outcome \in {"content", "content_array"}
       THEN pc' = "parse" /\ UNCHANGED insights
       ELSE insights' = GiApiError(dataType) /\ pc' = "returned"
    /\ UNCHANGED <<script, dataType, OPENAI_API_KEY, dataset, notInsights>>

RECURSIVE GiJoin(_)
\* String(content) of an array of strings: its elements joined by commas
GiJoin(parts) ==
    IF parts = <<>> THEN <<>>
    ELSE IF Len(parts) = 1 THEN parts[1]
    ELSE parts[1] \o <<",">> \o GiJoin(Tail(parts))

\* the block on a content that is an array: JSON.parse takes the array for
\* its text; when that attempt fails, content.replace is no function, and
\* the TypeError leaves the block
GiExtractArray(parts) ==
    LET first == JSON_parse(GiJoin(parts))
    IN IF GiValid(first) THEN [thrown |-> FALSE, insights |-> GiStrings(first)]
       ELSE [thrown |-> TRUE, insights |-> <<>>]

\* the block on the content of the reply
GiExtracted ==
    IF response.outcome = "content_array" THEN GiExtractArray(response.content)
    ELSE GiExtract(response.content)

\* the three attempts at the content, and the catch clause behind them
GiParse ==
    /\ script = "insights"
    /\ pc = "parse"
    /\ insights' = IF GiExtracted.thrown THEN GiApiError(dataType)
                   ELSE GiExtracted.insights
    /\ pc' = "returned"
    /\ UNCHANGED <<script, dataType, OPENAI_API_KEY, dataset, response, notInsights>>

InitInsights ==
    /\ script = "insights"
    /\ pc = "call"
    /\ ZeroAll

NextInsights ==
    \/ \E type \in {"products", "inventory", "orders"}, key \in BOOLEAN,
          data \in {"null", "empty", "items"} : GiGuards(type, key, data)
    \/ \E status \in GiStatuses : GiFetch(status)
    \/ \E r \in GiResponses : GiBody(r)
    \/ GiParse

SpecInsights == InitInsights /\ [][NextInsights]_vars

-----------------------------------------------------------------------------
(* Net sales over time: input lines *)

notNetSales == <<customers, rfmOnly, channelVars, cohortVars, returnsVars, rateVars,
                 inventoryVars, typeVars, locationVars, insightVars,
                 variantVars,
                 newCustVars,
                 loaderVars,
                 fetchVars>>

\* the three amounts the script reads, in eighths; MISSING for an absent key
NsBodies ==
    { [subtotal |-> Units(10), discounts |-> Units(1), refunded |-> Units(2)],
      [subtotal |-> Units(10), discounts |-> MISSING, refunded |-> Units(2)],
      [subtotal |-> MISSING, discounts |-> Units(1), refunded |-> 0] }

NsDays == {DayKey(2, 28), DayKey(3, 1), DayKey(3, 31)}

NsLines ==
    { [kind |-> k] : k \in {"blank", "malformed", "scalar", "other"} }
    \cup { [kind |-> "order", createdAt |-> d, body |-> b] : d \in NsDays, b \in NsBodies }
    \cup { [kind |-> "order", createdAt |-> BAD, body |-> b] :
             b \in {x \in NsBodies : x.discounts = MISSING} }

-----------------------------------------------------------------------------
(* Net sales over time: the read loop *)

\* the defaultdict's value for a new day
NsZero == [gross_sales |-> 0, discounts |-> 0, returns |-> 0]

\* The three "+=" statements in their order.  Each looks up daily_data[day],
\* which creates the bucket, before it reads its field of the order; a field
\* that is absent raises KeyError and ends the line there.
NsFold(acc, body) ==
    IF body.subtotal = MISSING THEN acc
    ELSE IF body.discounts = MISSING
         THEN [acc EXCEPT !.gross_sales = @ + body.subtotal]
    ELSE IF body.refunded = MISSING
         THEN [acc EXCEPT !.gross_sales = @ + body.subtotal,
                          !.discounts = @ + body.discounts]
    ELSE [acc EXCEPT !.gross_sales = @ + body.subtotal,
                     !.discounts = @ + body.discounts,
                     !.returns = @ + body.refunded]

\* the except clause prints "Skipping invalid line": the JSON does not parse,
\* createdAt does not parse, or one of the three amounts is absent
NsSkipped(line) ==
    \/ line.kind = "malformed"
    \/ /\ line.kind = "order"
       /\ \/ line.createdAt \in {MISSING, BAD}
          \/ MISSING \in {line.body.subtotal, line.body.discounts, line.body.refunded}

\* the line reaches the first "+=": an order whose createdAt parses
NsFolds(line) == line.kind = "order" /\ line.createdAt \notin {MISSING, BAD}

\* One iteration of "for line in file".
NsLine(line) ==
    /\ script = "net_sales"
    /\ pc = "read"
    /\ Len(jsonl_data) < MaxLines
    /\ jsonl_data' = Append(jsonl_data, line)
    /\ daily_data' =
          IF NsFolds(line)
          THEN Put(daily_data, line.createdAt,
                   NsFold(Bucket(daily_data, line.createdAt, NsZero), line.body))
          ELSE daily_data
    /\ pc' = IF line.kind = "scalar" THEN "aborted" ELSE "read"
    /\ UNCHANGED <<script, daily_net_sales, current_period_data, previous_period_data,
                   output_data, notNetSales>>

-----------------------------------------------------------------------------
(* Net sales over time: Steps 1 to 4 *)

\* Step 1: net_sales = gross_sales - discounts - returns
NsNet ==
    /\ script = "net_sales"
    /\ pc = "read"
    /\ daily_net_sales' =
          [day \in DOMAIN daily_data |->
              daily_data[day].gross_sales - daily_data[day].discounts
                 - daily_data[day].returns]
    /\ pc' = "split"
    /\ UNCHANGED <<script, jsonl_data, periodVars, output_data, notNetSales>>

\* the days of month m, keyed by day of month, each with its net sales
NsPeriodOf(m) ==
    [dom \in {DayOfMonth(day) : day \in {x \in DOMAIN daily_net_sales : MonthOf(x) = m}} |->
        [day |-> DayKey(m, dom), net_sales |-> daily_net_sales[DayKey(m, dom)]]]

\* Steps 2 and 3.  With no day at all, max(all_dates) raises ValueError.
NsSplit ==
    /\ script = "net_sales"
    /\ pc = "split"
    /\ IF DOMAIN daily_net_sales = {}
       THEN /\ pc' = "aborted"
            /\ UNCHANGED <<current_period_data, previous_period_data>>
       ELSE /\ current_period_data' = NsPeriodOf(CurrentMonth(daily_net_sales))
            /\ previous_period_data' =
                  NsPeriodOf(PreviousMonth(CurrentMonth(daily_net_sales)))
            /\ pc' = "output"
    /\ UNCHANGED <<script, jsonl_data, daily_data, daily_net_sales, output_data,
                   notNetSales>>

\* strptime(previous_day_str) raises ValueError and the loop continues
NsSkips(dom, m) == dom > DaysInMonth(PreviousMonth(m))

RECURSIVE NsRows(_, _, _, _)
\* the rows appended for day_of_month = dom .. last, net sales in hundredths
NsRows(cur, prev, dom, m) ==
    IF dom > DaysInMonth(m) THEN <<>>
    ELSE IF NsSkips(dom, m) THEN NsRows(cur, prev, dom + 1, m)
    ELSE <<[Day |-> DayKey(m, dom),
            Net_sales |-> Round2(PeriodGet(cur, dom, [net_sales |-> 0]).net_sales),
            Day_previous_period |-> DayKey(PreviousMonth(m), dom),
            Net_sales_previous_period |->
                Round2(PeriodGet(prev, dom, [net_sales |-> 0]).net_sales)]>>
         \o NsRows(cur, prev, dom + 1, m)

\* Step 4
NsOutput ==
    /\ script = "net_sales"
    /\ pc = "output"
    /\ output_data' = NsRows(current_period_data, previous_period_data, 1,
                             CurrentMonth(daily_net_sales))
    /\ pc' = "done"
    /\ UNCHANGED <<script, jsonl_data, periodVars, daily_net_sales, notNetSales>>

InitNetSales ==
    /\ script = "net_sales"
    /\ pc = "read"
    /\ ZeroAll

NextNetSales ==
    \/ \E line \in NsLines : NsLine(line)
    \/ NsNet
    \/ NsSplit
    \/ NsOutput

SpecNetSales == InitNetSales /\ [][NextNetSales]_vars

-----------------------------------------------------------------------------
(* Total sales by product variant: input lines *)

notVariant == <<customers, rfmOnly, periodVars, output_data, channelVars, cohortVars,
                current_data_by_day, previous_data_by_day, refund_to_day,
                orders_with_refunds, rateVars, inventoryVars, typeVars, locationVars,
                insightVars, netVars,
                newCustVars,
                loaderVars,
                fetchVars>>

PvOrderIds == {1, 2}

\* variantTitle objects: with a SKU, and with "sku": null
PvVariants == { [title |-> "Red", sku |-> "S1"], [title |-> "Red", sku |-> Null] }

PvLines ==
    { [kind |-> k] : k \in {"blank", "malformed", "scalar", "other"} }
    \cup { [kind |-> "order", id |-> o] : o \in PvOrderIds }
    \cup { [kind |-> "item", parent |-> o, productTitle |-> t, variantTitle |-> v,
            quantity |-> q, price |-> Units(10), discount |-> Units(1)] :
             o \in PvOrderIds, t \in {"Shirt", NoKey}, v \in PvVariants, q \in {1, 2} }
    \cup { [kind |-> "item", parent |-> 1, productTitle |-> "Shirt",
            variantTitle |-> [title |-> "Red", sku |-> "S1"],
            quantity |-> 1, price |-> BAD, discount |-> Units(1)] }

-----------------------------------------------------------------------------
(* Total sales by product variant: Step 1 *)

\* the defaultdict's value for a new variant; money in 160ths of a unit, so
\* that the 5 % of the tax approximation is exact
PvZero ==
    [product_title |-> "", variant_title |-> "", sku |-> "", net_items_sold |-> 0,
     gross_sales |-> 0, discounts |-> 0, returns |-> 0, net_sales |-> 0, taxes |-> 0,
     total_sales |-> 0]

\* eighths as 160ths
PvMoney(x) == 20 * x

\* variant_key = (product_title, variant_title, sku)
variant_key(data) ==
    <<IF data.productTitle = NoKey THEN "Unknown Product" ELSE data.productTitle,
      data.variantTitle.title,
      IF data.variantTitle.sku \in {NoKey, Null} THEN "Unknown SKU"
      ELSE data.variantTitle.sku>>

\* "__parentId" in data and data["__parentId"] == current_order_id
PvMatches(line, current) == line.kind = "item" /\ line.parent = current

\* the bucket of the variant after the line item: the three titles are set
\* first; float() of an ill-formed price raises before any sum is touched
PvUpdate(m, data) ==
    LET named == [m EXCEPT !.product_title = variant_key(data)[1],
                           !.variant_title = variant_key(data)[2],
                           !.sku = variant_key(data)[3]]
        gross == PvMoney(data.price) * data.quantity
    IN IF data.price = BAD THEN named
       ELSE [named EXCEPT
               !.net_items_sold = @ + data.quantity,
               !.gross_sales = @ + gross,
               !.discounts = @ - PvMoney(data.discount),
               !.taxes = @ + (gross - PvMoney(data.discount)) \div 20]

\* One iteration of "for line in jsonl_data".
PvLine(line) ==
    /\ script = "variant"
    /\ pc = "read"
    /\ Len(jsonl_data) < MaxLines
    /\ jsonl_data' = Append(jsonl_data, line)
    /\ current_order_id' = IF line.kind = "order" THEN line.id ELSE current_order_id
    /\ variant_metrics' =
          IF PvMatches(line, current_order_id)
          THEN Put(variant_metrics, variant_key(line),
                   PvUpdate(Bucket(variant_metrics, variant_key(line), PvZero), line))
          ELSE variant_metrics
    /\ pc' = IF line.kind = "scalar" THEN "aborted" ELSE "read"
    /\ UNCHANGED <<script, aggregated_data, notVariant>>

-----------------------------------------------------------------------------
(* Total sales by product variant: Steps 2 and 3 *)

\* variant_metrics.keys(), in insertion order
PvKeys ==
    LET items == SelectSeq([i \in 1..Len(jsonl_data) |->
                              [line |-> jsonl_data[i],
                               current |-> LET before ==
                                                 {j \in 1..(i - 1) :
                                                     jsonl_data[j].kind = "order"}
                                           IN IF before = {} THEN None
                                              ELSE jsonl_data[MaxOf(before)].id]],
                           LAMBDA x : PvMatches(x.line, x.current))
    IN FirstSeen([i \in 1..Len(items) |-> variant_key(items[i].line)], 1, {})

\* round(x, 2) of an amount in 160ths, in hundredths
PvRound(x) == IF x < 0 THEN 0 - RoundDiv(100 * (0 - x), 160) ELSE RoundDiv(100 * x, 160)

\* Step 2 and the tuple of Step 3
PvRow(key) ==
    LET metrics == variant_metrics[key]
        net_sales == metrics.gross_sales + metrics.discounts + metrics.returns
    IN [product_title |-> metrics.product_title,
        variant_title |-> metrics.variant_title,
        sku |-> metrics.sku,
        net_items_sold |-> metrics.net_items_sold,
        gross_sales |-> PvRound(metrics.gross_sales),
        discounts |-> PvRound(metrics.discounts),
        returns |-> PvRound(metrics.returns),
        net_sales |-> PvRound(net_sales),
        taxes |-> PvRound(metrics.taxes),
        total_sales |-> PvRound(net_sales + metrics.taxes)]

PvAggregate ==
    /\ script = "variant"
    /\ pc = "read"
    /\ aggregated_data' = SortDesc([i \in 1..Len(PvKeys) |-> PvRow(PvKeys[i])], 1)
    /\ variant_metrics' =
          [key \in DOMAIN variant_metrics |->
              [variant_metrics[key] EXCEPT
                 !.net_sales = variant_metrics[key].gross_sales
                                 + variant_metrics[key].discounts
                                 + variant_metrics[key].returns,
                 !.total_sales = variant_metrics[key].gross_sales
                                   + variant_metrics[key].discounts
                                   + variant_metrics[key].returns
                                   + variant_metrics[key].taxes]]
    /\ pc' = "done"
    /\ UNCHANGED <<script, jsonl_data, current_order_id, notVariant>>

InitVariant ==
    /\ script = "variant"
    /\ pc = "read"
    /\ ZeroAll

NextVariant ==
    \/ \E line \in PvLines : PvLine(line)
    \/ PvAggregate

SpecVariant == InitVariant /\ [][NextVariant]_vars

-----------------------------------------------------------------------------
(* New customers over time, new vs returning customers: input lines *)

notNewCust == <<customer_data, customer_list, periodVars, output_data, channelVars,
                cohortVars, returnsVars, rateVars, inventoryVars, typeVars,
                locationVars, insightVars, netVars, variantVars,
                loaderVars,
                fetchVars>>

\* a day before both periods of either script, a day in the previous period
\* of both, a day in the current period of both
NcDays == {DayKey(2, 10), DayKey(3, 10), DayKey(4, 10)}

NcLines ==
    { [kind |-> k] : k \in {"blank", "malformed", "scalar", "other"} }
    \cup { [kind |-> "customer", id |-> c] : c \in CustIds }
    \cup { [kind |-> "order", parent |-> c, createdAt |-> d, total |-> t] :
             c \in CustIds, d \in NcDays, t \in {Units(10), Units(20)} }
    \cup { [kind |-> "order", parent |-> 1, createdAt |-> d, total |-> MISSING] :
             d \in {MISSING, BAD} }
    \cup { [kind |-> "order", parent |-> 0, createdAt |-> DayKey(4, 10),
            total |-> Units(10)] }

NcScripts == {"new_customers", "new_vs_returning"}

-----------------------------------------------------------------------------
(* New customers over time, new vs returning customers: Step 1 *)

\* the lines that add 1 to invalid_lines
NcLineInvalid(line) ==
    \/ line.kind \in {"malformed", "other"}
    \/ line.kind = "order" /\ line.parent = 0

\* orders_by_customer[parent_id].append(data)
NcAddOrder(obc, line, n) ==
    Put(obc, line.parent,
        Append(IF line.parent \in DOMAIN obc THEN obc[line.parent] ELSE <<>>,
               [line |-> n, createdAt |-> line.createdAt, total |-> line.total]))

\* One iteration of the first pass, which the two scripts share word for
\* word.  A scalar makes the test "id" in data raise TypeError, which the
\* except clause does not name.
NcFirstPassLine(line) ==
    /\ script \in NcScripts
    /\ pc = "first_pass"
    /\ Len(jsonl_data) < MaxLines
    /\ jsonl_data' = Append(jsonl_data, line)
    /\ lines_processed' = lines_processed + 1
    /\ invalid_lines' = IF NcLineInvalid(line) THEN invalid_lines + 1 ELSE invalid_lines
    /\ customers' = IF line.kind = "customer"
                    THEN Put(customers, line.id, [id |-> line.id, orders |-> <<>>])
                    ELSE customers
    /\ orders_by_customer' =
           IF line.kind = "order" /\ line.parent # 0
           THEN NcAddOrder(orders_by_customer, line, lines_processed + 1)
           ELSE orders_by_customer
    /\ pc' = IF line.kind = "scalar" THEN "aborted" ELSE "first_pass"
    /\ UNCHANGED <<script, newCustVars, notNewCust>>

\* "Second pass: Reconstruct nested structure"
NcSecondPass ==
    /\ script \in NcScripts
    /\ pc = "first_pass"
    /\ customers' = Attach(customers, orders_by_customer)
    /\ pc' = "step2"
    /\ UNCHANGED <<script, jsonl_data, lines_processed, invalid_lines,
                   orders_by_customer, newCustVars, notNewCust>>

-----------------------------------------------------------------------------
(* New customers over time: Step 2, new customers by day *)

\* customers.keys(), in insertion order
NcCustomerKeys ==
    LET lines == SelectSeq(jsonl_data, LAMBDA l : l.kind = "customer")
    IN FirstSeen([i \in 1..Len(lines) |-> lines[i].id], 1, {})

\* earliest_order = None
NoEarliest == [date |-> None, order |-> None]

\* a slip: the latest order kept
NcLater(order_date, earliest) == order_date > earliest

\* order_date < earliest_order["date"]
NcEarlier(order_date, earliest) == order_date < earliest

RECURSIVE earliest_order(_, _, _)
\* "Find the earliest order": the loop over orders[i..], an order without
\* createdAt passed over
earliest_order(orders, i, earliest) ==
    IF i > Len(orders) THEN earliest
    ELSE IF orders[i].createdAt = MISSING THEN earliest_order(orders, i + 1, earliest)
    ELSE IF earliest = NoEarliest \/ NcEarlier(orders[i].createdAt, earliest.date)
         THEN earliest_order(orders, i + 1,
                             [date |-> orders[i].createdAt, order |-> orders[i].line])
         ELSE earliest_order(orders, i + 1, earliest)

\* strptime of an ill-formed createdAt in Step 2, outside any try: the
\* script ends with a ValueError before it writes anything
NcStep2Raises ==
    \E c \in DOMAIN customers :
       \E i \in 1..Len(customers[c].orders) : customers[c].orders[i].createdAt = BAD

\* "Determine the period"
NcPeriod(first_order_date) ==
    IF CURRENT_START <= first_order_date /\ first_order_date <= CURRENT_END THEN "current"
    ELSE IF PREVIOUS_START <= first_order_date /\ first_order_date <= PREVIOUS_END
         THEN "previous"
    ELSE "outside"

\* the defaultdict's value for a new day
NcZero == [customers |-> {}, orders |-> 0, total_sales |-> 0]

\* the bucket of the first order day after customer c: the customer added,
\* and every order of that day counted with its total price (0.0 if absent)
NcBucket(bucket, c, first_order_day) ==
    LET same_day == SelectSeq(customers[c].orders,
                              LAMBDA o : o.createdAt = first_order_day)
    IN [customers |-> bucket.customers \cup {c},
        orders |-> bucket.orders + Len(same_day),
        total_sales |-> bucket.total_sales
                          + SumOf([i \in 1..Len(same_day) |->
                                     IF same_day[i].total = MISSING THEN 0
                                     ELSE same_day[i].total], 1)]

RECURSIVE NcByDay(_, _, _, _)
\* the loop over customers.items() from keys[i] on, for the dictionary of
\* one period
NcByDay(keys, i, period, by_day) ==
    IF i > Len(keys) THEN by_day
    ELSE LET c == keys[i]
             earliest == earliest_order(customers[c].orders, 1, NoEarliest)
         IN IF earliest = NoEarliest \/ NcPeriod(earliest.date) # period
            THEN NcByDay(keys, i + 1, period, by_day)
            ELSE NcByDay(keys, i + 1, period,
                         Put(by_day, earliest.date,
                             NcBucket(Bucket(by_day, earliest.date, NcZero), c,
                                      earliest.date)))

NcStep2 ==
    /\ script = "new_customers"
    /\ pc = "step2"
    /\ IF NcStep2Raises
       THEN /\ pc' = "aborted"
            /\ UNCHANGED <<current_new_customers_by_day, previous_new_customers_by_day>>
       ELSE /\ current_new_customers_by_day' = NcByDay(NcCustomerKeys, 1, "current", EmptyMap)
            /\ previous_new_customers_by_day' =
                  NcByDay(NcCustomerKeys, 1, "previous", EmptyMap)
            /\ pc' = "step3"
    /\ UNCHANGED <<script, jsonl_data, customers, lines_processed, invalid_lines,
                   orders_by_customer, data_list, current_new, current_returning,
                   previous_new, previous_returning, notNewCust>>

-----------------------------------------------------------------------------
(* New customers over time: Step 3, rows *)

\* the row of a day of the current period, total sales in hundredths
NcRow(day) ==
    LET current_metrics == current_new_customers_by_day[day]
        prev_day == get_previous_period_day(day)
        previous_metrics == Bucket(previous_new_customers_by_day, prev_day, NcZero)
    IN [day |-> day,
        customers |-> Cardinality(current_metrics.customers),
        orders |-> current_metrics.orders,
        total_sales |-> Round2(current_metrics.total_sales),
        prev_day |-> prev_day,
        prev_customers |-> Cardinality(previous_metrics.customers),
        prev_orders |-> previous_metrics.orders,
        prev_total_sales |-> Round2(previous_metrics.total_sales)]

NcStep3 ==
    /\ script = "new_customers"
    /\ pc = "step3"
    /\ data_list' =
          LET days == Ascending(DOMAIN current_new_customers_by_day)
          IN [i \in 1..Len(days) |-> NcRow(days[i])]
    /\ pc' = "done"
    /\ UNCHANGED <<script, jsonl_data, customers, lines_processed, invalid_lines,
                   orders_by_customer, current_new_customers_by_day,
                   previous_new_customers_by_day, current_new, current_returning,
                   previous_new, previous_returning, notNewCust>>

InitNewCustomers ==
    /\ script = "new_customers"
    /\ pc = "first_pass"
    /\ ZeroAll

NextNewCustomers ==
    \/ \E line \in NcLines : NcFirstPassLine(line)
    \/ NcSecondPass
    \/ NcStep2
    \/ NcStep3

SpecNewCustomers == InitNewCustomers /\ [][NextNewCustomers]_vars

-----------------------------------------------------------------------------
(* New vs returning customers: Step 2, classification *)

\* the two 30-day periods of the script, which end on May 7, 2025
NVR_CURRENT_END == DayKey(5, 7)
NVR_CURRENT_START == DayOnDayOfYear(DayOfYear(NVR_CURRENT_END) - 29)
NVR_PREVIOUS_END == DayOnDayOfYear(DayOfYear(NVR_CURRENT_START) - 1)
NVR_PREVIOUS_START == DayOnDayOfYear(DayOfYear(NVR_PREVIOUS_END) - 29)

\* "Find the earliest order to determine when the customer is new"
earliest_order_date(orders) == earliest_order(orders, 1, NoEarliest).date

\* a slip: the lower end of the period left out
NvrIsNewNoStart(earliest, start, end) == earliest <= end

\* is_new_in_current, is_new_in_previous
NvrIsNew(earliest, start, end) == start <= earliest /\ earliest <= end

\* has_current_orders, has_previous_orders: a dated order inside the period
NvrHasOrders(orders, start, end) ==
    \E i \in 1..Len(orders) :
       /\ orders[i].createdAt # MISSING
       /\ start <= orders[i].createdAt
       /\ orders[i].createdAt <= end

\* the customers the loop gets to classify: with orders, one of them dated
NvrDated ==
    {c \in DOMAIN customers :
        customers[c].orders # <<>> /\ earliest_order_date(customers[c].orders) # None}

\* the customers added to the New set of the period
NvrNew(start, end) ==
    {c \in NvrDated :
        /\ NvrHasOrders(customers[c].orders, start, end)
        /\ NvrIsNew(earliest_order_date(customers[c].orders), start, end)}

\* the customers added to the Returning set of the period
NvrReturning(start, end) ==
    {c \in NvrDated :
        /\ NvrHasOrders(customers[c].orders, start, end)
        /\ ~NvrIsNew(earliest_order_date(customers[c].orders), start, end)
        /\ earliest_order_date(customers[c].orders) < start}

\* Step 2, as the four sets it leaves.  An ill-formed createdAt ends the
\* script with a ValueError, as in the other script.
NvrClassify ==
    /\ script = "new_vs_returning"
    /\ pc = "step2"
    /\ IF NcStep2Raises
       THEN /\ pc' = "aborted"
            /\ UNCHANGED <<current_new, current_returning, previous_new,
                           previous_returning>>
       ELSE /\ current_new' = NvrNew(NVR_CURRENT_START, NVR_CURRENT_END)
            /\ current_returning' = NvrReturning(NVR_CURRENT_START, NVR_CURRENT_END)
            /\ previous_new' = NvrNew(NVR_PREVIOUS_START, NVR_PREVIOUS_END)
            /\ previous_returning' = NvrReturning(NVR_PREVIOUS_START, NVR_PREVIOUS_END)
            /\ pc' = "step3"
    /\ UNCHANGED <<script, jsonl_data, customers, lines_processed, invalid_lines,
                   orders_by_customer, current_new_customers_by_day,
                   previous_new_customers_by_day, data_list, notNewCust>>

\* Step 3
NvrStep3 ==
    /\ script = "new_vs_returning"
    /\ pc = "step3"
    /\ data_list' =
          <<[category |-> "New", customers |-> Cardinality(current_new),
             customers_prev |-> Cardinality(previous_new)],
            [category |-> "Returning", customers |-> Cardinality(current_returning),
             customers_prev |-> Cardinality(previous_returning)]>>
    /\ pc' = "done"
    /\ UNCHANGED <<script, jsonl_data, customers, lines_processed, invalid_lines,
                   orders_by_customer, current_new_customers_by_day,
                   previous_new_customers_by_day, current_new, current_returning,
                   previous_new, previous_returning, notNewCust>>

InitNewVsReturning ==
    /\ script = "new_vs_returning"
    /\ pc = "first_pass"
    /\ ZeroAll

NextNewVsReturning ==
    \/ \E line \in NcLines : NcFirstPassLine(line)
    \/ NcSecondPass
    \/ NvrClassify
    \/ NvrStep3

SpecNewVsReturning == InitNewVsReturning /\ [][NextNewVsReturning]_vars

-----------------------------------------------------------------------------
(* The loader: products pagination *)

notLoader == <<customers, rfmOnly, periodVars, output_data, channelVars, cohortVars,
               returnsVars, rateVars, inventoryVars, typeVars, locationVars,
               insightVars, netVars, variantVars, newCustVars,
               fetchVars>>

\* the requests a run may make before the model stops following it
MaxRequests == 4

\* product nodes of a reply: with a title, with "title": null, and one whose
\* variants connection is null, on which the mapping of the edges throws
LoaderNodes ==
    { [id |-> 1, title |-> "Shirt", variants |-> "edges"],
      [id |-> 2, title |-> Null, variants |-> "edges"],
      [id |-> 3, title |-> "Hat", variants |-> Null] }

LoaderEdge(n) == [node |-> n, cursor |-> IF n.id = 1 THEN "cursor1"
                                        ELSE IF n.id = 2 THEN "cursor2" ELSE "cursor3"]

LoaderNode(i) == CHOOSE n \in LoaderNodes : n.id = i

\* the edges of a page of at most two products
LoaderPages ==
    { <<>>, <<LoaderEdge(LoaderNode(1))>>, <<LoaderEdge(LoaderNode(2))>>,
      <<LoaderEdge(LoaderNode(1)), LoaderEdge(LoaderNode(2))>>,
      <<LoaderEdge(LoaderNode(3))>> }

\* what a request may come to: a reply with data, a reply with errors, an
\* aborted request, a request that fails otherwise
LoaderReplies ==
    { [kind |-> "data", edges |-> e, hasNextPage |-> h] : e \in LoaderPages, h \in BOOLEAN }
    \cup { [kind |-> k, edges |-> <<>>, hasNextPage |-> FALSE] :
             k \in {"errors", "aborted", "failed"} }

\* the object built from an edge, the title of a product without one "N/A"
LoaderProduct(edge) ==
    [id |-> edge.node.id,
     title |-> IF edge.node.title = Null THEN "N/A" ELSE edge.node.title]

\* edge.node.variants.edges.map on a null connection throws a TypeError
LoaderMapThrows(reply) ==
    \E i \in 1..Len(reply.edges) : reply.edges[i].node.variants = Null

\* the try block runs to its end
LoaderAccepted(reply) == reply.kind = "data" /\ ~LoaderMapThrows(reply)

\* the catch block takes the error for an abort and continues the loop
LoaderRetries(reply) == reply.kind = "aborted"

\* a slip: the page put in the place of the products fetched so far
LoaderReplace(all, products) == products

\* allProducts = [...allProducts, ...products]
LoaderConcat(all, products) == all \o products

\* the cursor of the last edge, or null for a page without edges
LoaderEndCursor(edges) == IF Len(edges) > 0 THEN edges[Len(edges)].cursor ELSE Null

\* the reply the loader is reading, or has read last
LoaderReply == served[Len(served)].reply

\* the catch block: an abort waits and makes the request again, any other
\* error ends the loader with status 500
LoaderCaught(kind) == IF kind = "aborted" THEN "retry_wait" ELSE "status500"

\* await admin.graphql(...): the request with the cursor; it rejects, or it
\* resolves to a response whose body is still to be read
LoaderGraphql(reply) ==
    /\ script = "loader"
    /\ pc = "products"
    /\ hasNextPageProducts
    /\ Len(served) < MaxRequests
    /\ served' = Append(served, [after |-> endCursorProducts, reply |-> reply])
    /\ pc' = IF reply.kind \in {"aborted", "failed"} THEN LoaderCaught(reply.kind)
             ELSE "json"
    /\ UNCHANGED <<script, jsonl_data, allProducts, hasNextPageProducts,
                   endCursorProducts, notLoader>>

\* await response.json() and the rest of the try block: the body is read, or
\* reading it is aborted or fails otherwise; a body that is read is tested
\* for errors, mapped and appended, and the loop variables are set
LoaderJson(body) ==
    /\ script = "loader"
    /\ pc = "json"
    /\ IF body # "read"
       THEN /\ served' = [served EXCEPT ![Len(served)].reply.kind = body]
            /\ pc' = LoaderCaught(body)
            /\ UNCHANGED <<allProducts, hasNextPageProducts, endCursorProducts>>
       ELSE /\ UNCHANGED served
            /\ IF LoaderAccepted(LoaderReply)
               THEN /\ allProducts' =
                          LoaderConcat(allProducts,
                                       [i \in 1..Len(LoaderReply.edges) |->
                                           LoaderProduct(LoaderReply.edges[i])])
                    /\ hasNextPageProducts' = LoaderReply.hasNextPage
                    /\ endCursorProducts' = LoaderEndCursor(LoaderReply.edges)
                    /\ pc' = IF LoaderReply.hasNextPage THEN "wait" ELSE "inventory"
               ELSE /\ UNCHANGED <<allProducts, hasNextPageProducts, endCursorProducts>>
                    /\ pc' = "status500"
    /\ UNCHANGED <<script, jsonl_data, notLoader>>

\* await delay(delayBetweenRequests) after a page that has a next one
LoaderWait ==
    /\ script = "loader"
    /\ pc = "wait"
    /\ pc' = "products"
    /\ UNCHANGED <<script, jsonl_data, loaderVars, notLoader>>

\* await delay(2000) and continue, after an abort
LoaderRetryWait ==
    /\ script = "loader"
    /\ pc = "retry_wait"
    /\ pc' = "products"
    /\ UNCHANGED <<script, jsonl_data, loaderVars, notLoader>>

InitLoader ==
    /\ script = "loader"
    /\ pc = "products"
    /\ ZeroAll

NextLoader ==
    \/ \E reply \in LoaderReplies : LoaderGraphql(reply)
    \/ \E body \in {"read", "aborted", "failed"} : LoaderJson(body)
    \/ LoaderWait
    \/ LoaderRetryWait

SpecLoader == InitLoader /\ [][NextLoader]_vars

-----------------------------------------------------------------------------
(* Claims about the RFM customer list *)

\* positions of the input that hold a line of the given kind
LinesOfKind(k) == {i \in 1..Len(jsonl_data) : jsonl_data[i].kind = k}

\* ids of the customer records of the input
CustomerLineIds == {jsonl_data[i].id : i \in LinesOfKind("customer")}

\* order lines whose __parentId is a customer gid
ChildLines == {i \in LinesOfKind("order") : jsonl_data[i].parent # 0}

\* child lines whose parent has no customer record in the input
OrphanLines == {i \in ChildLines : jsonl_data[i].parent \notin CustomerLineIds}

\* the run ended inside the first pass (a scalar line raised)
AbortedInFirstPass ==
    pc = "aborted" /\ Len(jsonl_data) > 0 /\ jsonl_data[Len(jsonl_data)].kind = "scalar"

\* the second pass has run
Reconstructed == script = "rfm" /\ pc # "first_pass" /\ ~AbortedInFirstPass

\* how often order line i occurs in customer c's orders
Occurrences(c, i) ==
    Cardinality({k \in 1..Len(customers[c].orders) : customers[c].orders[k].line = i})

\* C1: after the two passes, every order line whose parent has a customer
\* record anywhere in the input is in that customer's orders exactly once,
\* and in no other customer's orders.
C1_OrdersAttachedOnce ==
    Reconstructed =>
        \A i \in ChildLines \ OrphanLines :
            \A c \in DOMAIN customers :
                Occurrences(c, i) = IF c = jsonl_data[i].parent THEN 1 ELSE 0

\* C1 witness: a customer whose record lies between two of its order lines
\* has both attached.
C1_Witness ==
    /\ Reconstructed
    /\ \E i, j, k \in 1..Len(jsonl_data) :
          /\ i < j /\ j < k
          /\ jsonl_data[j].kind = "customer"
          /\ i \in ChildLines /\ k \in ChildLines
          /\ jsonl_data[i].parent = jsonl_data[j].id
          /\ jsonl_data[k].parent = jsonl_data[j].id
          /\ Len(customers[jsonl_data[j].id].orders) = 2

\* a line that does not parse as a structured record: not JSON at all, or
\* JSON that is no object
UnparsableLines == LinesOfKind("malformed") \cup LinesOfKind("scalar")

\* C2: a non-blank line that fails to parse as a structured record is
\* skipped and counted, and the run goes on: it never ends on such a line.
C2_BadLineSkippedAndCounted ==
    script = "rfm" =>
        /\ invalid_lines >= Cardinality(UnparsableLines)
        /\ ~AbortedInFirstPass

\* C3: the customers after reconstruction are exactly the customer records
\* read, each order hangs under its own parent, and no row is for a
\* customer without a record.
C3_NoSynthesizedRoot ==
    Reconstructed =>
        /\ DOMAIN customers = CustomerLineIds
        /\ \A c \in DOMAIN customers : \A k \in 1..Len(customers[c].orders) :
              /\ customers[c].orders[k].parent = c
              /\ customers[c].orders[k].line \notin OrphanLines
        /\ DOMAIN customer_data \subseteq CustomerLineIds
        /\ \A r \in 1..Len(customer_list) :
              customer_list[r].customer_id \in CustomerLineIds

\* C3 witness: a finished run whose input had an orphaned order and that
\* wrote a row.
C3_Witness ==
    /\ script = "rfm" /\ pc = "done"
    /\ OrphanLines # {}
    /\ Len(customer_list) > 0

\* lines the first pass counts in invalid_lines
CountedLines ==
    LinesOfKind("malformed") \cup LinesOfKind("other") \cup LinesOfKind("child")
        \cup (LinesOfKind("order") \ ChildLines)

\* C4: every orphaned order adds 1 to the invalid count reported with the
\* output.
C4_OrphansCounted ==
    Reconstructed =>
        invalid_lines = Cardinality(CountedLines) + Cardinality(OrphanLines)

\* rows of the customer list that are for customer c
RowsOf(c) == {r \in 1..Len(customer_list) : customer_list[r].customer_id = c}

\* the run came to its end without raising
Completed == script = "rfm" /\ pc \in {"done", "exit"}

\* C5: every customer record of the input yields exactly one row of the
\* customer list; a customer with zero orders has a row as well.
C5_EveryCustomerHasRow ==
    Completed => \A c \in DOMAIN customers : Cardinality(RowsOf(c)) = 1

\* the groups have been assigned
Grouped == script = "rfm" /\ pc \in {"list", "done"}

\* the band the mean score selects
Band(m) ==
    IF ScoreSum(m) >= 12 THEN "High-Value"
    ELSE IF ScoreSum(m) >= 9 THEN "Loyal"
    ELSE IF ScoreSum(m) >= 6 THEN "At-Risk"
    ELSE "Lost"

\* C6: a customer with exactly one order is in group New whatever its
\* scores; the bands decide only for customers with two or more orders.
C6_NewOverride ==
    Grouped =>
        \A c \in DOMAIN customer_data :
            customer_data[c].rfm_group =
                IF customer_data[c].total_orders = 1 THEN "New"
                ELSE Band(customer_data[c])

\* C6 witness: a one-order customer whose mean score is at least 4 is New,
\* next to a customer that the bands place in High-Value.
C6_Witness ==
    /\ Grouped
    /\ \E c, d \in DOMAIN customer_data :
          /\ customer_data[c].total_orders = 1
          /\ ScoreSum(customer_data[c]) >= 12
          /\ customer_data[c].rfm_group = "New"
          /\ customer_data[d].total_orders >= 2
          /\ customer_data[d].rfm_group = "High-Value"

\* C7: more orders never give a lower frequency score, and more spent
\* never gives a lower monetary score.
C7_ScoresRiseWithValue ==
    Grouped =>
        \A c, d \in DOMAIN customer_data :
            /\ customer_data[c].total_orders <= customer_data[d].total_orders
                  => customer_data[c].f_score <= customer_data[d].f_score
            /\ customer_data[c].total_spent <= customer_data[d].total_spent
                  => customer_data[c].m_score <= customer_data[d].m_score

-----------------------------------------------------------------------------
(* Claims about rates and averages *)

Finished(name) == script = name /\ pc = "done"

\* the two sides of the rows of the returning customer rate report
RateSides == {output_data[i].current : i \in 1..Len(output_data)}
                \cup {output_data[i].previous : i \in 1..Len(output_data)}

\* C8: in every row of the cohort, items-returned, returning-customer-rate
\* and inventory reports a rate or average whose denominator is 0 is 0:
\* average order value with no orders, the per-customer averages and the
\* retention with no customers, the refund average of either period with no
\* orders, the returning rate with no customers, the sell-through rate with
\* nothing available.
C8_ZeroDenominator ==
    /\ Finished("cohort") =>
          \A i \in 1..Len(cohort_metrics) :
             LET row == cohort_metrics[i] IN
             /\ row.Total_orders = 0 => row.Average_order_value = 0
             /\ row.Total_customers = 0 =>
                   /\ row.Average_number_of_orders = 0
                   /\ row.Amount_spent_per_customer = 0
                   /\ row.Customer_retention = 0
    /\ Finished("items_returned") =>
          \A i \in 1..Len(aggregated_data) :
             LET row == aggregated_data[i] IN
             /\ row.orders = 0 => row.avg_order_value = 0
             /\ row.prev_orders = 0 => row.prev_avg_order_value = 0
    /\ Finished("returning_rate") =>
          \A side \in RateSides : side.customers = 0 => side.rate = 0
    /\ Finished("inventory") =>
          \A i \in 1..Len(output_data) :
             LET row == output_data[i] IN
             row.starting_quantity + row.quantity_sold = 0 => row.sell_through_rate = 0

\* a finished items-returned report with a day whose refunds are all of an
\* order counted on another day: money refunded, no order to divide by
C8_Witness ==
    /\ Finished("items_returned")
    /\ \E i \in 1..Len(aggregated_data) :
          /\ aggregated_data[i].orders = 0
          /\ current_data_by_day[aggregated_data[i].day].total_refunded > 0
          /\ aggregated_data[i].avg_order_value = 0

-----------------------------------------------------------------------------
(* Claims about the sales reports *)

\* the order lines of the input that the total-sales loop aggregated into day
TsLinesOfDay(day) ==
    SelectSeq(jsonl_data,
              LAMBDA l : l.kind = "order" /\ ~TsRaises(l) /\ l.createdAt = day)

\* an amount of an order: a money field, the sum of its refunds, or the
\* absolute value of that sum
TsAmount(body, what) ==
    IF what = "returns" THEN TsReturns(body)
    ELSE IF what = "abs_returns"
         THEN (IF TsReturns(body) < 0 THEN 0 - TsReturns(body) ELSE TsReturns(body))
    ELSE body[what]

RECURSIVE TsSum(_, _, _)
\* the sum of an amount over the lines i.. of a list of order lines
TsSum(lines, what, i) ==
    IF i > Len(lines) THEN 0
    ELSE TsAmount(lines[i].body, what) + TsSum(lines, what, i + 1)

TsDerived == script = "total_sales" /\ pc \in {"split", "output", "done"}

\* the two sides of a row of the total-sales report, and the rows of the channel report
TsSides == {output_data[i].current : i \in 1..Len(output_data)}
              \cup {output_data[i].previous : i \in 1..Len(output_data)}

\* C9: in every bucket of the total-sales-over-time report net sales is the
\* gross sales accumulated from the day's orders minus the discounts minus the
\* returns accumulated from them, and the row shows it rounded to 2 decimals;
\* in every row of the sales-by-channel report net sales is the channel's
\* accumulated gross sales minus its accumulated discounts minus its
\* accumulated returns, rounded to 2 decimals.
C9_NetSalesIdentity ==
    /\ TsDerived =>
          \A day \in DOMAIN daily_data :
             daily_data[day].net_sales =
                TsSum(TsLinesOfDay(day), "subtotal", 1)
                  - TsSum(TsLinesOfDay(day), "discounts", 1)
                  - TsSum(TsLinesOfDay(day), "returns", 1)
    /\ (script = "total_sales" /\ pc = "done") =>
          \A side \in TsSides :
             side.net_sales =
                IF side.day \in DOMAIN daily_data
                THEN Round2(daily_data[side.day].gross_sales
                              - daily_data[side.day].discounts
                              - daily_data[side.day].returns)
                ELSE 0
    /\ (script = "channel" /\ pc = "done") =>
          \A i \in 1..Len(output_data) :
             LET m == sales_channel_data[output_data[i].sales_channel] IN
             output_data[i].net_sales = Round2(m.gross_sales - m.discounts - m.returns)

\* a finished total-sales report with a day that has returns, whose rounded
\* net sales is not the difference of the rounded columns
C9_Witness ==
    /\ script = "total_sales"
    /\ pc = "done"
    /\ \E side \in TsSides :
          /\ side.returns > 0
          /\ side.discounts > 0
          /\ side.net_sales # side.gross_sales - side.discounts - side.returns

\* C10: net sales is gross sales minus discounts minus the absolute value of
\* the refunded amount of each order, so no refunded amount raises net sales
\* above gross sales minus discounts.
C10_ReturnsAbsolute ==
    TsDerived =>
       \A day \in DOMAIN daily_data :
          /\ daily_data[day].net_sales =
                TsSum(TsLinesOfDay(day), "subtotal", 1)
                  - TsSum(TsLinesOfDay(day), "discounts", 1)
                  - TsSum(TsLinesOfDay(day), "abs_returns", 1)
          /\ daily_data[day].net_sales <= daily_data[day].gross_sales
                                            - daily_data[day].discounts


-----------------------------------------------------------------------------
(* Claims about determinism *)

\* C11: the rows of a finished sales-attributed-to-marketing report, and
\* their order, are fixed by the input: whatever order the keys are visited
\* in, sorting by Total sales gives the rows that were written.
C11_OneRowOrder ==
    Finished("marketing") =>
       \A ord \in IterationOrders(all_keys) : MkSorted(ord) = output_data

-----------------------------------------------------------------------------
(* Claims about missing and ill-formed fields *)

MoneyFields == {"subtotal", "discounts", "tax", "shipping"}

\* the orders attached to customers lack nothing but money fields
OnlyMoneyMissing ==
    \A c \in DOMAIN customers : \A i \in 1..Len(customers[c].orders) :
       LET b == customers[c].orders[i].body IN
       /\ b.createdAt \notin {MISSING, BAD}
       /\ \A f \in MoneyFields : b[f] # BAD

OrZero(x) == IF x = MISSING THEN 0 ELSE x

RECURSIVE SpentOrZero(_, _)
\* what the orders i.. add to total_spent when an absent amount counts 0.0
SpentOrZero(orders, i) ==
    IF i > Len(orders) THEN 0
    ELSE LET b == orders[i].body IN
         OrZero(b.subtotal) - OrZero(b.discounts) + OrZero(b.tax) + OrZero(b.shipping)
            + SpentOrZero(orders, i + 1)

\* C12: when orders lack money fields and nothing else, Step 2 of the RFM
\* script does not raise, and every customer with orders gets its entry, with
\* 0.0 in place of each absent amount and the other amounts added.
C12_MissingMoneyIsZero ==
    (Reconstructed /\ pc # "metrics" /\ OnlyMoneyMissing) =>
       /\ pc # "aborted"
       /\ \A c \in DOMAIN customers :
             Len(customers[c].orders) > 0 =>
                /\ c \in DOMAIN customer_data
                /\ customer_data[c].total_spent = SpentOrZero(customers[c].orders, 1)

\* the orders attached to customers have nothing wrong but ill-formed dates
OnlyDatesIllFormed ==
    \A c \in DOMAIN customers : \A i \in 1..Len(customers[c].orders) :
       LET b == customers[c].orders[i].body IN
       /\ b.createdAt # MISSING
       /\ \A f \in MoneyFields : b[f] \notin {MISSING, BAD}

\* the orders of a customer whose createdAt parses
DatedOrders(c) == SelectSeq(customers[c].orders, LAMBDA o : o.body.createdAt # BAD)

\* C13: when some orders have an unparseable createdAt and nothing else is
\* wrong, Step 2 of the RFM script does not raise, and every customer with
\* a dated order gets its entry, computed from its dated orders.
C13_BadDateExcludesOneOrder ==
    (Reconstructed /\ pc # "metrics" /\ OnlyDatesIllFormed) =>
       /\ pc # "aborted"
       /\ \A c \in DOMAIN customers :
             DatedOrders(c) # <<>> =>
                /\ c \in DOMAIN customer_data
                /\ customer_data[c].total_spent = TotalSpent(DatedOrders(c), 1)

-----------------------------------------------------------------------------
(* Claims about the finalization step *)

\* the accumulators a script fills while it reads its file
Accumulators ==
    IF script = "total_sales" THEN {daily_data[k] : k \in DOMAIN daily_data}
    ELSE IF script = "marketing"
         THEN {current_period_data[k] : k \in DOMAIN current_period_data}
                 \cup {previous_period_data[k] : k \in DOMAIN previous_period_data}
    ELSE {}

\* C14: while the lines of the file are still being read, net_sales and
\* total_sales of every accumulator of the total-sales and marketing reports
\* have their initial value 0.0; they are written after the last line only.
C14_DerivedOnlyAtEnd ==
    (script \in {"total_sales", "marketing"} /\ pc = "read") =>
       \A m \in Accumulators : m.net_sales = 0 /\ m.total_sales = 0

-----------------------------------------------------------------------------
(* Claims about the new customer sales report *)

\* the input lines that contributed an order to the bucket (day, type)
NcsContributors(day, type) ==
    {i \in 1..Len(jsonl_data) :
        /\ jsonl_data[i].kind = "order"
        /\ jsonl_data[i].createdAt = day
        /\ jsonl_data[i].customer # 0
        /\ ~NcsMoneyRaises(jsonl_data[i])
        /\ customer_type(jsonl_data[i]) = type}

\* C15: in every row of the new customer sales report, on the current and on
\* the previous side, Customers is the number of distinct customer ids that
\* contributed an order to the (day, customer type) bucket, Orders is the
\* number of those orders, and so Customers <= Orders.
C15_CustomersDistinct ==
    Finished("new_customer_sales") =>
       \A i \in 1..Len(aggregated_data) :
          LET row == aggregated_data[i]
              cur == NcsContributors(row.day, row.customer_type)
              prev == NcsContributors(row.day_previous_period, row.customer_type)
          IN /\ row.customers = Cardinality({jsonl_data[j].customer : j \in cur})
             /\ row.orders = Cardinality(cur)
             /\ row.customers <= row.orders
             /\ row.customers_previous_period =
                   Cardinality({jsonl_data[j].customer : j \in prev})
             /\ row.orders_previous_period = Cardinality(prev)
             /\ row.customers_previous_period <= row.orders_previous_period

\* a customer placed two orders in one bucket: one customer, two orders
C15_Witness ==
    /\ Finished("new_customer_sales")
    /\ \E i \in 1..Len(aggregated_data) :
          aggregated_data[i].customers = 1 /\ aggregated_data[i].orders = 2

-----------------------------------------------------------------------------
(* Claims about the classifier *)

\* records that carry the __parentId of a customer and are no customer
\* record themselves: the second rule of the classifier
CarriesParent ==
    {i \in 1..Len(jsonl_data) :
        jsonl_data[i].kind \in {"order", "child"} /\ jsonl_data[i].parent # 0}

\* parsed records that match neither rule, and lines that do not parse
MatchesNeither ==
    LinesOfKind("malformed") \cup LinesOfKind("other")
        \cup {i \in LinesOfKind("order") : jsonl_data[i].parent = 0}

\* C16: in the first pass of the RFM script a record with the Customer
\* prefix becomes a customer; any other record that carries the __parentId
\* of a customer is stored under that parent; and the invalid-line counter
\* counts only the lines that match neither rule.
C16_ClassifiedInOrder ==
    (script = "rfm" /\ ~AbortedInFirstPass) =>
        /\ DOMAIN customers = CustomerLineIds
        /\ \A i \in CarriesParent :
              /\ jsonl_data[i].parent \in DOMAIN orders_by_customer
              /\ \E k \in 1..Len(orders_by_customer[jsonl_data[i].parent]) :
                    orders_by_customer[jsonl_data[i].parent][k].line = i
        /\ invalid_lines = Cardinality(MatchesNeither)

-----------------------------------------------------------------------------
(* Claims about the customers by location report *)

\* Step 2 has run
Located == script = "location" /\ pc \in {"sort", "done"}

\* total over the buckets
RECURSIVE LocTotal(_)
LocTotal(S) ==
    IF S = {} THEN 0
    ELSE LET k == CHOOSE x \in S : TRUE IN location_counts[k] + LocTotal(S \ {k})

\* C17: after Step 2 of the customers by location script every bucket counts
\* the customers with exactly one order at that location, a customer with
\* one order and no default address is counted under ("Unknown", "ZZ", "ZZ"),
\* and the buckets together count the customers with exactly one order and
\* nobody else.
C17_NewCustomersCounted ==
    Located =>
       /\ \A c \in DOMAIN customers :
             Len(customers[c].orders) = 1 =>
                /\ location_key(customers[c]) \in DOMAIN location_counts
                /\ customers[c].defaultAddress = NoAddress =>
                      location_key(customers[c]) = <<"Unknown", "ZZ", "ZZ">>
       /\ \A key \in DOMAIN location_counts :
             location_counts[key] =
                Cardinality({c \in DOMAIN customers :
                               Len(customers[c].orders) = 1
                               /\ location_key(customers[c]) = key})
       /\ LocTotal(DOMAIN location_counts) =
             Cardinality({c \in DOMAIN customers : Len(customers[c].orders) = 1})

\* a customer without default address and with one order is counted under
\* ("Unknown", "ZZ", "ZZ")
C17_Witness ==
    /\ Located
    /\ <<"Unknown", "ZZ", "ZZ">> \in DOMAIN location_counts
    /\ location_counts[<<"Unknown", "ZZ", "ZZ">>] = 1
    /\ \E c \in DOMAIN customers : customers[c].defaultAddress = NoAddress
                                     /\ Len(customers[c].orders) = 1

-----------------------------------------------------------------------------
(* Claims about the cohort report *)

\* ids of the customer records of the input
CohortCustomerIds ==
    {jsonl_data[i].id : i \in {j \in 1..Len(jsonl_data) : jsonl_data[j].kind = "customer"}}

\* the order records of customer c in the input: the order lines under c whose
\* date and amounts are well-formed
CohortOrderLines(c) ==
    {i \in 1..Len(jsonl_data) :
        /\ jsonl_data[i].kind = "order"
        /\ jsonl_data[i].parent = c
        /\ ~CohortAborts(jsonl_data[i])
        /\ ~CohortRaises(jsonl_data[i])}

\* every customer line precedes the order lines of that customer
CustomerLinesFirst ==
    \A i, j \in 1..Len(jsonl_data) :
       (jsonl_data[i].kind = "customer" /\ jsonl_data[j].kind = "order"
        /\ jsonl_data[j].parent = jsonl_data[i].id) => i < j

\* the orders of customer c that have a date: the order lines under c whose
\* createdAt is well-formed, whatever their amounts
CohortDatedOrders(c) ==
    {i \in 1..Len(jsonl_data) :
        /\ jsonl_data[i].kind = "order"
        /\ jsonl_data[i].parent = c
        /\ jsonl_data[i].createdAt \notin {MISSING, BAD}}

\* the month of the earliest dated order of customer c, who has one
EarliestDatedMonth(c) ==
    MonthOf(CHOOSE d \in {jsonl_data[i].createdAt : i \in CohortDatedOrders(c)} :
               \A i \in CohortDatedOrders(c) : d <= jsonl_data[i].createdAt)

\* the customers of the input whose earliest order falls in month m
CohortOfMonth(m) ==
    {c \in CohortCustomerIds : CohortDatedOrders(c) # {} /\ EarliestDatedMonth(c) = m}

\* the month of the earliest order of customer c, who has one
EarliestOrderMonth(c) ==
    MonthOf(CHOOSE d \in {jsonl_data[i].createdAt : i \in CohortOrderLines(c)} :
               \A i \in CohortOrderLines(c) : d <= jsonl_data[i].createdAt)

\* the customers of the input whose earliest order falls in month m
CohortOf(m) ==
    {c \in CohortCustomerIds : CohortOrderLines(c) # {} /\ EarliestOrderMonth(c) = m}

\* C18: when every customer line precedes its order lines, each row of the
\* cohort report has for Total_customers the number of customers whose
\* earliest order falls in the cohort month, for Total_orders the number of
\* orders of those customers dated in the row's calendar month, and
\* Customer_retention 0 when Periods_since_first_purchase is 0.
C18_CohortRowCounts ==
    (Finished("cohort") /\ CustomerLinesFirst) =>
       \A r \in 1..Len(cohort_metrics) :
          LET row == cohort_metrics[r]
              cohort == row.Customer_cohort_period
              month == cohort + row.Periods_since_first_purchase
          IN /\ row.Total_customers = Cardinality(CohortOfMonth(cohort))
             /\ row.Total_orders =
                   Cardinality({i \in UNION {CohortDatedOrders(c) : c \in CohortOfMonth(cohort)} :
                                   MonthOf(jsonl_data[i].createdAt) = month})
             /\ row.Periods_since_first_purchase = 0 => row.Customer_retention = 0

\* C20: whatever the order of the lines, in a run of the cohort script that
\* completes every customer with at least one order is in the cohort of the
\* month of its earliest order, and in no other, and has all of its orders
\* in customer_orders.
C20_LineOrderIrrelevant ==
    Finished("cohort") =>
       \A c \in CohortCustomerIds :
          CohortOrderLines(c) # {} =>
             /\ \A m \in DOMAIN customer_cohorts :
                   (\E k \in 1..Len(customer_cohorts[m]) : customer_cohorts[m][k] = c)
                      <=> m = EarliestOrderMonth(c)
             /\ EarliestOrderMonth(c) \in DOMAIN customer_cohorts
             /\ Len(Bucket(customer_orders, c, <<>>)) = Cardinality(CohortOrderLines(c))

-----------------------------------------------------------------------------
(* Claims about generateInsights *)

\* the replies from which the function takes its insights
GiAccepted == {c \in GiContents : ~GiExtract(c).thrown}

\* C19: generateInsights resolves, whatever the key, the data and the reply,
\* to an array of exactly five non-empty strings: once it has returned,
\* insights has five elements and none of them is the empty string, and no
\* position of the function is outside the try block's reach.
C19_FiveInsights ==
    script = "insights" =>
       /\ pc \in {"call", "fetch", "body", "parse", "returned"}
       /\ pc = "returned" =>
             /\ Len(insights) = 5
             /\ \A i \in 1..5 : insights[i] # <<>> /\ Trim(insights[i]) # <<>>

\* the reply was a numbered list inside fences and its items were returned
C19_Witness ==
    /\ script = "insights"
    /\ pc = "returned"
    /\ response.outcome = "content"
    /\ response.content = <<Fence, "\n">> \o GiList(5) \o <<"\n", Fence>>
    /\ insights = [i \in 1..5 |-> <<"A">>]

-----------------------------------------------------------------------------
(* Claims about the counters of the RFM first pass *)

\* the lines the first pass accepted: customer records, and orders with a
\* valid parent id
AcceptedLines == LinesOfKind("customer") \cup ChildLines

\* C29: when the first pass of the RFM script has completed, every input
\* line was counted once in lines_processed, and it is a blank line, an
\* accepted customer line, an accepted order line or one of the
\* invalid_lines, and never two of these.
C29_LinesAccounted ==
    Reconstructed =>
        /\ lines_processed = Len(jsonl_data)
        /\ lines_processed =
              Cardinality(LinesOfKind("blank")) + Cardinality(LinesOfKind("customer"))
                 + Cardinality(ChildLines) + invalid_lines
        /\ invalid_lines =
              Cardinality((1..Len(jsonl_data)) \ (LinesOfKind("blank") \cup AcceptedLines))
        /\ LinesOfKind("blank") \cap AcceptedLines = {}

\* a blank line, an accepted order and an order without valid parent
C29_Witness ==
    /\ Reconstructed
    /\ Cardinality(LinesOfKind("blank")) = 1
    /\ Cardinality(ChildLines) = 1
    /\ Cardinality(LinesOfKind("order")) = 2
    /\ invalid_lines = 1
    /\ lines_processed = 3

-----------------------------------------------------------------------------
(* Claims about the items returned report *)

\* the day buckets of the two periods
ItBuckets ==
    {current_data_by_day[d] : d \in DOMAIN current_data_by_day}
        \cup {previous_data_by_day[d] : d \in DOMAIN previous_data_by_day}

\* C26: in the items returned script every day bucket with a positive
\* total_refunded has orders >= 1, and every row with a day of positive
\* refunds shows total_refunded / orders and not the fallback 0.
C26_RefundDayHasOrder ==
    script = "items_returned" =>
       /\ \A m \in ItBuckets : m.total_refunded > 0 => m.orders >= 1
       /\ pc = "done" =>
             \A i \in 1..Len(aggregated_data) :
                current_data_by_day[aggregated_data[i].day].total_refunded >= 1
                   => aggregated_data[i].avg_order_value > 0

(* Claims about the net sales over time report *)

\* the days on which an order was created that the read loop took whole
NsValidDays ==
    {jsonl_data[i].createdAt :
        i \in {j \in 1..Len(jsonl_data) :
                  NsFolds(jsonl_data[j]) /\ ~NsSkipped(jsonl_data[j])}}

NsRowsOf(day) == {i \in 1..Len(output_data) : output_data[i].Day = day}

\* C27: every day of the latest month on which a valid order was created has
\* exactly one output row, and that row carries the day's net sales, whatever
\* the length of the previous month.
C27_LatestMonthDaysHaveRow ==
    (script = "net_sales" /\ pc = "done") =>
        \A day \in NsValidDays :
            MonthOf(day) = CurrentMonth(daily_net_sales) =>
                /\ Cardinality(NsRowsOf(day)) = 1
                /\ \A i \in NsRowsOf(day) :
                      output_data[i].Net_sales = Round2(daily_net_sales[day])

\* C25: an order line that is reported as skipped leaves every bucket, and the
\* set of buckets, as they were.
C25_SkippedLineChangesNothing ==
    [][(script = "net_sales" /\ Len(jsonl_data') = Len(jsonl_data) + 1
          /\ NsSkipped(jsonl_data'[Len(jsonl_data')]))
        => daily_data' = daily_data]_vars

(* Claims about the bucket keys of the customers by location report *)

\* C23: every bucket key has three non-null string components, a missing
\* country, region or city (absent or null) being replaced by "Unknown", "ZZ"
\* and "ZZ", so that sorting and emitting the buckets never fails.
C23_KeysNonNull ==
    script = "location" =>
       /\ \A key \in DOMAIN location_counts : \A i \in 1..3 : key[i] # Null
       /\ pc = "sort" =>
             ~\E k1, k2 \in DOMAIN location_counts : LocCompareRaises(k1, k2)

(* Claims about the rows of a cohort *)

\* the rows of cohort m
CohortRowsOf(m) == SelectSeq(cohort_metrics, LAMBDA row : row.Customer_cohort_period = m)

\* C24: when every customer line precedes its order lines, every order of a
\* customer of a cohort is counted in exactly one row of that cohort: the sum
\* of Total_orders over the rows of the cohort is the number of orders of the
\* customers of the cohort.
C24_CohortOrdersAllCounted ==
    (Finished("cohort") /\ CustomerLinesFirst) =>
       \A m \in DOMAIN customer_cohorts :
          SumField(CohortRowsOf(m), "Total_orders", 1)
             = Cardinality(UNION {CohortOrderLines(c) : c \in CohortOf(m)})

(* Claims about the total sales by product variant report *)

\* line i is a line item whose parent is an order line earlier in the input
PvHasOrder(i) ==
    /\ jsonl_data[i].kind = "item"
    /\ \E j \in 1..(i - 1) :
          jsonl_data[j].kind = "order" /\ jsonl_data[j].id = jsonl_data[i].parent

RECURSIVE PvQuantity(_, _)
\* the quantities of the well-formed line items i.. of variant key that have
\* their order
PvQuantity(key, i) ==
    IF i > Len(jsonl_data) THEN 0
    ELSE (IF PvHasOrder(i) /\ jsonl_data[i].price # BAD /\ variant_key(jsonl_data[i]) = key
          THEN jsonl_data[i].quantity ELSE 0)
         + PvQuantity(key, i + 1)

PvItemKeys == {variant_key(line) : line \in {l \in PvLines : l.kind = "item"}}

\* C21: every line item whose __parentId names an order of the input adds its
\* quantity exactly once to the net_items_sold of its variant, whatever lines
\* lie between the order line and the line item.
C21_LineItemsCountedOnce ==
    script = "variant" =>
       \A key \in PvItemKeys :
          Bucket(variant_metrics, key, PvZero).net_items_sold = PvQuantity(key, 1)

(* Claims about the new customers over time report *)

\* the dates of the dated orders of customer c in the input
NcOrderDates(c) ==
    {jsonl_data[i].createdAt :
        i \in {j \in 1..Len(jsonl_data) :
                  /\ jsonl_data[j].kind = "order"
                  /\ jsonl_data[j].parent = c
                  /\ jsonl_data[j].createdAt \notin {MISSING, BAD}}}

\* the minimum createdAt date over the orders of customer c, who has one
NcFirstOrderDay(c) == CHOOSE d \in NcOrderDates(c) : \A e \in NcOrderDates(c) : d <= e

\* the day buckets, of either period, that hold customer c
NcBucketsOf(c) ==
    {<<"current", day>> : day \in {d \in DOMAIN current_new_customers_by_day :
                                      c \in current_new_customers_by_day[d].customers}}
    \cup {<<"previous", day>> :
             day \in {d \in DOMAIN previous_new_customers_by_day :
                         c \in previous_new_customers_by_day[d].customers}}

\* C22 as stated: every customer with a dated order is in exactly one day
\* bucket, that of the minimum createdAt date over its orders.
C22_FirstOrderDayBucket ==
    Finished("new_customers") =>
       \A c \in DOMAIN customers :
          NcOrderDates(c) # {} =>
             \E p \in {"current", "previous"} : NcBucketsOf(c) = {<<p, NcFirstOrderDay(c)>>}

\* C22, amended: the first-order day of a customer is the minimum createdAt
\* date over its dated orders, whatever their arrival order; when that day
\* lies in the current or in the previous period the customer is in exactly
\* one day bucket, that day's in that period, and otherwise in none.
C22_FirstOrderDayBucketInPeriod ==
    Finished("new_customers") =>
       \A c \in DOMAIN customers :
          NcOrderDates(c) # {} =>
             NcBucketsOf(c) =
                IF NcPeriod(NcFirstOrderDay(c)) = "outside" THEN {}
                ELSE {<<NcPeriod(NcFirstOrderDay(c)), NcFirstOrderDay(c)>>}

\* a customer with two orders on its earliest day, which differ in their
\* totals and so in their arrival order, is in the bucket of that day with
\* both orders counted
C22_Witness ==
    /\ Finished("new_customers")
    /\ 1 \in DOMAIN customers
    /\ Len(customers[1].orders) = 2
    /\ customers[1].orders[1].createdAt = DayKey(4, 10)
    /\ customers[1].orders[2].createdAt = DayKey(4, 10)
    /\ customers[1].orders[1].total > customers[1].orders[2].total
    /\ NcBucketsOf(1) = {<<"current", DayKey(4, 10)>>}
    /\ current_new_customers_by_day[DayKey(4, 10)].orders = 2

(* Claims about the new vs returning customers report *)

\* customer c has a dated order inside the period
NvrOrderedIn(c, start, end) == \E d \in NcOrderDates(c) : start <= d /\ d <= end

\* the claim of C28 for one period and its two sets
NvrPartition(new, returning, start, end) ==
    /\ new \cap returning = {}
    /\ \A c \in DOMAIN customers :
          NvrOrderedIn(c, start, end) =>
             /\ c \in new \cup returning
             /\ c \in new <=> (start <= NcFirstOrderDay(c) /\ NcFirstOrderDay(c) <= end)
             /\ c \in returning <=> NcFirstOrderDay(c) < start

\* C28: for each of the two periods the New and Returning sets are disjoint,
\* and every customer with a dated order inside the period is in exactly one
\* of them: New if its earliest order lies inside the period, Returning if it
\* lies before the start of the period.
C28_NewOrReturning ==
    Finished("new_vs_returning") =>
       /\ NvrPartition(current_new, current_returning, NVR_CURRENT_START, NVR_CURRENT_END)
       /\ NvrPartition(previous_new, previous_returning,
                       NVR_PREVIOUS_START, NVR_PREVIOUS_END)

\* a customer who ordered first in the previous period and again in the
\* current one is new in the previous period and returning in the current
C28_Witness ==
    /\ Finished("new_vs_returning")
    /\ NcOrderDates(1) = {DayKey(3, 10), DayKey(4, 10)}
    /\ 1 \in DOMAIN customers
    /\ previous_new = {1}
    /\ current_returning = {1}
    /\ current_new = {}
    /\ previous_returning = {}

(* Claims about the products pagination of the loader *)

\* the requests whose outcome the loader has dealt with
LoaderSettled == IF pc = "json" THEN Len(served) - 1 ELSE Len(served)

RECURSIVE LoaderServed(_)
\* the products of the pages served[i..] that were accepted, in order
LoaderServed(i) ==
    IF i > LoaderSettled THEN <<>>
    ELSE (IF LoaderAccepted(served[i].reply)
          THEN [j \in 1..Len(served[i].reply.edges) |->
                  LoaderProduct(served[i].reply.edges[j])]
          ELSE <<>>)
         \o LoaderServed(i + 1)

\* C30: the products fetched are the pages the server returned, each once
\* and in order; the request after an aborted one carries the same cursor,
\* and the request after a page the cursor of its last edge; an error that
\* is no abort ends the loader with status 500; and the loop is left exactly
\* when a reply reports hasNextPage false.
C30_PagesAppendedOnce ==
    script = "loader" =>
       /\ allProducts = LoaderServed(1)
       /\ \A i \in 1..(Len(served) - 1) :
             /\ LoaderRetries(served[i].reply) => served[i + 1].after = served[i].after
             /\ LoaderAccepted(served[i].reply) =>
                   /\ served[i].reply.hasNextPage
                   /\ served[i + 1].after = LoaderEndCursor(served[i].reply.edges)
             /\ LoaderAccepted(served[i].reply) \/ LoaderRetries(served[i].reply)
       /\ pc = "status500" <=>
             /\ LoaderSettled > 0
             /\ LoaderSettled = Len(served)
             /\ ~LoaderAccepted(LoaderReply)
             /\ ~LoaderRetries(LoaderReply)
       /\ pc = "inventory" <=>
             /\ LoaderSettled > 0
             /\ LoaderSettled = Len(served)
             /\ LoaderAccepted(LoaderReply)
             /\ ~LoaderReply.hasNextPage
       /\ pc = "retry_wait" => LoaderRetries(LoaderReply)
       /\ pc = "wait" => LoaderAccepted(LoaderReply) /\ LoaderReply.hasNextPage

\* a first page, an aborted request that is made again with the cursor of
\* that page, and the last page: three products, none twice
C30_Witness ==
    /\ script = "loader"
    /\ pc = "inventory"
    /\ Len(served) = 4
    /\ served[1].after = StartCursor
    /\ Len(served[1].reply.edges) = 2
    /\ served[2].reply.kind = "aborted"
    /\ served[3].reply.kind = "aborted"
    /\ served[3].after = "cursor2"
    /\ served[4].after = "cursor2"
    /\ Len(allProducts) = 3

====
